---- MODULE Spec2Model ----
(***************************************************************************)
(* A model of AsyncChatAssistantClient (async_chat_assistant_client.py):   *)
(* the session history self._messages, the token budget, the cancellation  *)
(* flag and one process_messages call at a time, stepped at the points     *)
(* where the coroutine reads or writes shared state.                       *)
(*                                                                         *)
(* The base class BaseChatAssistantClient, the AsyncConversation classes   *)
(* and the callbacks are not part of the sources at hand; what the model   *)
(* takes from them is stated where it is used.                             *)
(***************************************************************************)
EXTENDS Integers, Sequences, FiniteSets, TLC

\* ------------------------------------------------------------------ bounds

\* process_messages calls made on one client.
MaxRuns == 2

\* Requests one run may issue: the backend stops returning tool calls at the
\* last of them (the runner itself has no cap).
MaxRequests == 2

\* Deltas over which the backend may spread the fragments of one tool call.
MaxFragments == 3

\* ------------------------------------------------------------- plain values

\* Python's None.
None == "<None>"

\* A key a dict does not have.
Missing == "<missing>"

\* The models an assistant is configured with here: one of the limit table
\* and one that is not in it.
Models == {"gpt-3", "gpt-4-turbo"}

\* ModelMaxTokens.model_token_limits.
ModelMaxTokens == [m \in {"gpt-4o", "gpt-3", "gpt-4"} |->
    CASE m = "gpt-4o" -> 128000
      [] m = "gpt-3" -> 2048
      [] m = "gpt-4" -> 8192]

\* AssistantConfig.model_conv_token_limit: a KeyError for a model that is not
\* in the table (ModelKnown tells).
ModelKnown(m) == m \in DOMAIN ModelMaxTokens

model_conv_token_limit(m) == ModelMaxTokens[m]

\* len(encoder.encode(content)): the tokenizer is an external library; the
\* texts of the model have these lengths.
TokenLen(content) ==
    CASE content = "book" -> 5000
      [] content = "essay" -> 2100
      [] content = "hello" -> 2
      [] content = "hel" -> 1
      [] content = "lo" -> 1
      [] OTHER -> 1

\* ------------------------------------------------------------------- turns

\* An element of self._messages. obj tells a ChatCompletionMessage object (the
\* non-streaming handler appends the response message itself) from a dict.
Turn(role, content, tool_calls, tool_call_id, name, obj) ==
    [role |-> role, content |-> content, tool_calls |-> tool_calls,
     tool_call_id |-> tool_call_id, name |-> name, obj |-> obj]

SystemTurn(content) == Turn("system", content, <<>>, Missing, Missing, FALSE)

UserTurn(content) == Turn("user", content, <<>>, Missing, Missing, FALSE)

AssistantTurn(content) == Turn("assistant", content, <<>>, Missing, Missing, FALSE)

\* response.choices[0].message as appended by _handle_non_streaming_response.
ResponseMessageTurn(message) ==
    Turn("assistant", message.content, message.tool_calls, Missing, Missing, TRUE)

\* {"tool_calls": tool_calls, "role": 'assistant'} of _process_tool_calls.
ToolCallsTurn(calls) == Turn("assistant", Missing, calls, Missing, Missing, FALSE)

ToolTurn(call, content) ==
    Turn("tool", content, <<>>, call.id, call.name, FALSE)

Evictable(turn) == turn.role \in {"user", "assistant"}

\* A tool call descriptor (tool_call.id, .function.name, .function.arguments).
ToolCall(id, name, arguments) == [id |-> id, name |-> name, arguments |-> arguments]

\* ------------------------------------------------------- the tool registry

\* BaseChatAssistantClient._handle_function_call: looks the name up among the
\* assistant's functions, parses the arguments and calls the handler; a failure
\* comes back as a text describing it, never as an exception. The registry of
\* the model: get_weather answers "sunny", get_time raises.
_handle_function_call(name, arguments) ==
    CASE arguments # "{}" -> "error: arguments"
      [] name = "get_weather" -> "sunny"
      [] name = "get_time" -> "error: get_time failed"
      [] OTHER -> "error: unknown function"

\* ----------------------------------------------------------------- backend

WeatherCall == ToolCall("call_1", "get_weather", "{}")

TimeCall == ToolCall("call_2", "get_time", "{}")

\* A call of a function the assistant does not have, and one whose arguments
\* are not JSON.
NewsCall == ToolCall("call_3", "get_news", "{}")

BadArgumentsCall == ToolCall("call_4", "get_weather", "{city")

\* The messages a non-streamed completion may carry.
Message(content, calls) ==
    [kind |-> "message", content |-> content, tool_calls |-> calls, chunks |-> <<>>]

\* response = None of line 230.
NoResponse == [kind |-> "none", content |-> None, tool_calls |-> <<>>, chunks |-> <<>>]

\* A streamed completion: the deltas it will deliver.
StreamResponse(chunks) ==
    [kind |-> "stream", content |-> None, tool_calls |-> <<>>, chunks |-> chunks]

ResponseContents == {None, "hello"}

ResponseToolCalls ==
    {<<>>, <<WeatherCall>>, <<WeatherCall, TimeCall>>, <<NewsCall, BadArgumentsCall>>}

\* A fragment of a tool call in a streamed delta.
Fragment(index, id, name, arguments) ==
    [index |-> index, id |-> id, name |-> name, arguments |-> arguments]

\* A chunk of a streamed response: chunk.choices[0].delta, or no choices.
Chunk(choices, content, frags) ==
    [choices |-> choices, content |-> content, tool_calls |-> frags]

TextChunk(text) == Chunk(TRUE, text, <<>>)

ToolCallsChunk(frags) == Chunk(TRUE, None, frags)

\* The streams the backend may answer with: no delta at all; deltas without
\* choices or with an empty text; a text in two deltas; one tool call whose
\* name and arguments are split over two deltas; two tool calls whose
\* fragments interleave; a text followed by a tool call.
TextStreams ==
    { <<>>,
      << Chunk(FALSE, None, <<>>), TextChunk("") >>,
      << TextChunk("hel"), TextChunk("lo") >> }

ToolCallStreams ==
    { << ToolCallsChunk(<< Fragment(0, "call_1", "get_", "") >>),
         ToolCallsChunk(<< Fragment(0, None, "weather", "{}") >>) >>,
      << ToolCallsChunk(<< Fragment(1, "call_2", "get_time", ""),
                           Fragment(0, "call_1", "get_weather", "") >>),
         ToolCallsChunk(<< Fragment(0, None, None, "{}"),
                           Fragment(1, None, None, "{}") >>) >>,
      << TextChunk("hello"),
         ToolCallsChunk(<< Fragment(0, "call_1", "get_weather", "{}") >>) >> }

\* ------------------------------------------------------------ the thread

\* What retrieve_conversation gives for the thread, newest message first
\* (conversation.messages); process_messages walks it reversed.
ThreadMessage(role, content) == [role |-> role, content |-> content]

InitialThreads ==
    { << ThreadMessage("user", "hi"), ThreadMessage("assistant", "hello"),
         ThreadMessage("user", "book") >> }

\* ----------------------------------------------------- completion settings

\* config_data without the key 'completion_settings', or with None for it.
NoCompletionSettings ==
    [kind |-> "none", frequency_penalty |-> None, max_tokens |-> None,
     presence_penalty |-> None, response_format |-> None, temperature |-> None,
     top_p |-> None, seed |-> None, max_text_messages |-> None]

\* The dictionary under 'completion_settings'; numbers are written as strings.
CompletionData(fp, mt, pp, rf, t, tp, sd, mtm) ==
    [kind |-> "dict", frequency_penalty |-> fp, max_tokens |-> mt,
     presence_penalty |-> pp, response_format |-> rf, temperature |-> t,
     top_p |-> tp, seed |-> sd, max_text_messages |-> mtm]

\* text_completion_config is None.
NoTextCompletionConfig ==
    [kind |-> "none", frequency_penalty |-> None, max_tokens |-> None,
     presence_penalty |-> None, response_format |-> None, temperature |-> None,
     top_p |-> None, seed |-> None, max_text_messages |-> None]

\* TextCompletionConfig.__init__.
TextCompletionConfig(fp, mt, pp, rf, t, tp, sd, mtm) ==
    [kind |-> "TextCompletionConfig", frequency_penalty |-> fp, max_tokens |-> mt,
     presence_penalty |-> pp, response_format |-> rf, temperature |-> t,
     top_p |-> tp, seed |-> sd, max_text_messages |-> mtm]

\* AssistantConfig._setup_completion_settings for the assistant type
\* 'chat_assistant': every key of the dictionary is handed to the constructor
\* but 'seed', in whose place None is passed.
_setup_completion_settings(completion_data) ==
    IF completion_data.kind = "none" THEN NoTextCompletionConfig
    ELSE TextCompletionConfig(completion_data.frequency_penalty,
                              completion_data.max_tokens,
                              completion_data.presence_penalty,
                              completion_data.response_format,
                              completion_data.temperature,
                              completion_data.top_p,
                              None,
                              completion_data.max_text_messages)

\* response_format of the request: None, or {'type': ...}.
NoResponseFormat == [kind |-> "none", type |-> None]

ResponseFormat(type) == [kind |-> "dict", type |-> type]

\* No request has been made.
NoRequest ==
    [kind |-> "none", temperature |-> None, seed |-> None,
     frequency_penalty |-> None, max_tokens |-> None, presence_penalty |-> None,
     response_format |-> NoResponseFormat, top_p |-> None]

\* Lines 238-246 and 254-260: the sampling parameters of the request, each
\* None when text_completion_config is None.
RequestParameters(config) ==
    IF config.kind = "none"
    THEN [kind |-> "request", temperature |-> None, seed |-> None,
          frequency_penalty |-> None, max_tokens |-> None,
          presence_penalty |-> None, response_format |-> NoResponseFormat,
          top_p |-> None]
    ELSE [kind |-> "request", temperature |-> config.temperature,
          seed |-> config.seed, frequency_penalty |-> config.frequency_penalty,
          max_tokens |-> config.max_tokens,
          presence_penalty |-> config.presence_penalty,
          response_format |-> ResponseFormat(config.response_format),
          top_p |-> config.top_p]

\* ------------------------------------------------------------ get_instance

\* Callers of get_instance that may run at the same time.
MaxCallers == 3

\* The values of ai_client_type.
ClientTypes == {"AZURE_OPEN_AI", "OPEN_AI"}

\* The values of config_folder.
ConfigFolders == {None, "config"}

\* ------------------------------------------------- ConversationThreadConfig

ThreadIds == {"thread_1", "thread_2"}

FileIds == {"file_1", "file_2"}

\* The ids files.create gives to uploaded files, in order.
UploadIds == << "file_3", "file_4" >>

\* An attachment dictionary; a key the dictionary lacks has the value Missing.
Attachment(file_name, file_id, tools) ==
    [file_name |-> file_name, file_id |-> file_id, tools |-> tools]

\* The new_attachments lists: at most two elements, no file_id twice; file_id
\* is None for a file to upload.
NewAttachmentLists ==
    LET NewAttachments ==
            { Attachment("n.txt", f, t) : f \in FileIds \cup {None},
                                          t \in {<< >>, << "file_search" >>} }
    IN {<< >>} \cup { << a >> : a \in NewAttachments }
               \cup { ab \in NewAttachments \X NewAttachments :
                          ab[1].file_id = None \/ ab[1].file_id # ab[2].file_id }

\* get_thread_id_by_name: None for a name without thread.
get_thread_id_by_name(tc, name) ==
    IF name \in DOMAIN tc.threads THEN tc.threads[name] ELSE None

\* remove_thread_by_id: the names of the thread are forgotten.
remove_thread_by_id(tc, thread_id) ==
    [tc EXCEPT !.threads =
        [n \in { x \in DOMAIN tc.threads : tc.threads[x] # thread_id } |->
             tc.threads[n]]]

set_attachments_of_thread(tc, thread_id, attachments) ==
    [tc EXCEPT !.attachments[thread_id] = attachments]

remove_attachment_from_thread(tc, thread_id, file_id) ==
    [tc EXCEPT !.attachments[thread_id] =
        SelectSeq(@, LAMBDA att : att.file_id # file_id)]

add_attachments_to_thread(tc, thread_id, attachments) ==
    [tc EXCEPT !.attachments[thread_id] = @ \o attachments]

\* update_attachment_in_thread: the stored attachment with the file_id of the
\* given one is replaced; a dictionary without file_id matches none.
update_attachment_in_thread(tc, thread_id, attachment) ==
    [tc EXCEPT !.attachments[thread_id] =
        [i \in DOMAIN @ |->
             IF attachment.file_id # Missing /\ @[i].file_id = attachment.file_id
             THEN attachment ELSE @[i]]]

\* Calls of the thread client's methods in a behaviour.
MaxCalls == 2

\* No call of a thread client method has been made. existing and deleted are
\* the stored attachments and the remote deletions at the start of the call,
\* calls counts the calls made.
NoCall ==
    [method |-> "none", pc |-> "idle", thread_name |-> None, thread_id |-> None,
     new_attachments |-> << >>, existing |-> << >>, deleted |-> << >>,
     attachments_to_remove |-> << >>, all_updated_attachments |-> << >>,
     updated_attachments |-> << >>, error |-> None, calls |-> 0]

\* ------------------------------------------------------------------- state

VARIABLES
    model,                  \* self._assistant_config.model
    messages,               \* self._messages
    token_count,            \* self._token_count
    cancel_run_requested,   \* self._cancel_run_requested.is_set()
    thread,                 \* the conversation thread, newest first
    pc,                     \* where the process_messages call stands
    runs,                   \* process_messages calls made so far (the run id)
    thread_name,            \* arguments and locals of the call
    user_request,
    stream,
    response,
    tool_calls,             \* _process_response_chunks' tool_calls
    collected_messages,     \* _process_response_chunks' collected_messages
    is_first_message,
    n_chunks,               \* deltas consumed of the current stream
    next_call,              \* position of the for loop over the tool calls
    n_requests,             \* completions requested by this run
    events,                 \* the callbacks fired by this run, in order
    result,                 \* how the call ended
    messages_at_request,    \* history: self._messages when the request was made
    cancel_at_start,        \* history: the flag when the call was made
    cancel_pc,              \* history: where the run stood when the pending
                            \* cancellation was requested (None: none pending)
    cancelled,              \* history: the loop was left through the cancellation break
    completion_settings,    \* config_data['completion_settings']
    text_completion_config, \* self._assistant_config.text_completion_config
    request_parameters,     \* the sampling parameters of the run's last request
    other_pc,               \* where a second, overlapping process_messages call stands
    other_request,          \* the history the request of that call was made with
    _instances,             \* AsyncConversationThreadClient._instances
    _lock,                  \* the callers that hold AsyncConversationThreadClient._lock
    objects,                \* the AsyncConversationThreadClient objects made by __new__
    callers,                \* the get_instance call of each caller
    thread_config,          \* self._thread_config: thread names and attachments
    remote,                 \* the threads and files the AI client's service holds
    method_call             \* the running or last call of a thread client method

vars == << model, messages, token_count, cancel_run_requested, thread, pc, runs,
           thread_name, user_request, stream, response, tool_calls,
           collected_messages, is_first_message, n_chunks, next_call, n_requests,
           events, result, messages_at_request, cancel_at_start, cancel_pc,
           cancelled, completion_settings, text_completion_config,
           request_parameters, other_pc, other_request, _instances, _lock,
           objects, callers, thread_config, remote, method_call >>

\* The cancellation flag with its history.
flag == << cancel_run_requested, cancel_pc >>

\* The variables a step of the run leaves alone unless it says otherwise.
config == << model, runs, thread_name, stream, cancel_at_start,
             completion_settings, text_completion_config, request_parameters,
             other_pc, other_request, _instances, _lock, objects, callers,
             thread_config, remote, method_call >>

\* The class variables of AsyncConversationThreadClient, the calls of
\* get_instance, and the thread configuration, the service and the calls of
\* the thread client's methods.
threadClient == << _instances, _lock, objects, callers, thread_config, remote,
                  method_call >>

\* The completion settings as configured and as set up at construction.
settings == << completion_settings, text_completion_config >>

\* The second call.
other == << other_pc, other_request >>

streamLocals == << tool_calls, collected_messages, is_first_message, n_chunks >>

\* ----------------------------------------------------------------- results

NotEnded == [kind |-> "none", value |-> None, error |-> None]

Returned(value) == [kind |-> "returned", value |-> value, error |-> None]

\* raise ValueError(...) before the try block.
RaisedValueError == [kind |-> "raised", value |-> None, error |-> "ValueError"]

\* except Exception as e: raise EngineError(...): cause names the exception.
RaisedEngineError(cause) ==
    [kind |-> "raised", value |-> None, error |-> "EngineError: " \o cause]

\* An entry of events. Line 218: run_id is made once per call and handed to
\* every callback of the call; the number of the call stands for it.
Event(cb, status, text, name, arguments) ==
    [cb |-> cb, run_id |-> runs, status |-> status, text |-> text, name |-> name,
     arguments |-> arguments]

OnRunStartEvent(request) == Event("on_run_start", None, request, None, None)

OnRunUpdateEvent(status, text) == Event("on_run_update", status, text, None, None)

OnFunctionCallProcessedEvent(name, arguments, text) ==
    Event("on_function_call_processed", None, text, name, arguments)

OnRunEndEvent(text) == Event("on_run_end", None, text, None, None)

\* -------------------------------------------------------------------- Init

\* The class as loaded: no instance, the lock free (_lock is the set of its
\* holders), no caller; instance and result of a caller are positions in
\* objects. The thread client before its first call: two named threads, the
\* first with two attachments, all of them held by the service too.
NoThreadClientCalls ==
    /\ _instances = [t \in {} |-> 0]
    /\ _lock = {}
    /\ objects = <<>>
    /\ callers = [c \in 1..MaxCallers |->
                      [pc |-> "idle", ai_client_type |-> None,
                       config_folder |-> None, instance |-> 0, result |-> 0]]
    /\ thread_config =
           [threads |-> [n \in {"first", "second"} |->
                             IF n = "first" THEN "thread_1" ELSE "thread_2"],
            attachments |-> [t \in ThreadIds |->
                                 IF t = "thread_1"
                                 THEN << Attachment("a.txt", "file_1", << >>),
                                         Attachment("b.txt", "file_2", << >>) >>
                                 ELSE << >>]]
    /\ remote = [threads |-> ThreadIds, files |-> FileIds, deleted |-> << >>,
                 uploads |-> 0]
    /\ method_call = NoCall

\* A client as constructed: an empty history and token count, the flag unset,
\* no call made.
Init ==
    /\ model \in Models
    /\ messages = <<>>
    /\ token_count = 0
    /\ cancel_run_requested = FALSE
    /\ thread \in InitialThreads
    /\ pc = "idle"
    /\ runs = 0
    /\ thread_name = None
    /\ user_request = None
    /\ stream = FALSE
    /\ response = NoResponse
    /\ tool_calls = <<>>
    /\ collected_messages = <<>>
    /\ is_first_message = TRUE
    /\ n_chunks = 0
    /\ next_call = 1
    /\ n_requests = 0
    /\ events = <<>>
    /\ result = NotEnded
    /\ messages_at_request = <<>>
    /\ cancel_at_start = FALSE
    /\ cancel_pc = None
    /\ cancelled = FALSE
    /\ completion_settings = NoCompletionSettings
    /\ text_completion_config = _setup_completion_settings(completion_settings)
    /\ request_parameters = NoRequest
    /\ other_pc = "idle"
    /\ other_request = <<>>
    /\ NoThreadClientCalls

\* ----------------------------------------------------- cancel_processing

\* A request, a streamed response or the dispatch of its tool calls is under
\* way.
InFlight ==
    pc \in {"create", "chunks", "tool_calls", "tool_call_processed",
            "stream_tool_calls", "stream_tool_call_processed"}

\* Where the call stands: no call in progress, before the loop, at the head of
\* an iteration, within an iteration, after the loop.
Phase ==
    CASE pc \in {"idle", "returned", "raised"} -> "idle"
      [] pc \in {"update_token_count", "on_run_start", "clear_cancel"} -> "start"
      [] pc = "loop" -> "boundary"
      [] InFlight -> "in_flight"
      [] pc = "after_loop" -> "after_loop"

\* The flag is set by whoever holds the client, at any time.
CancelProcessing ==
    /\ ~cancel_run_requested
    /\ cancel_run_requested' = TRUE
    /\ cancel_pc' = Phase
    /\ UNCHANGED << model, messages, token_count, thread, pc, runs, thread_name,
                    user_request, stream, response, tool_calls, collected_messages,
                    is_first_message, n_chunks, next_call, n_requests, events,
                    result, messages_at_request, cancel_at_start, cancelled,
                    settings, request_parameters, other, threadClient >>

\* -------------------------------------------------------- process_messages

\* No call is in progress.
Idle == pc \in {"idle", "returned", "raised"}

\* The turns the walk over reversed(conversation.messages) appends.
RECURSIVE ThreadTurns(_)
ThreadTurns(conv) ==
    IF conv = <<>> THEN <<>>
    ELSE LET last == conv[Len(conv)]
             rest == ThreadTurns(SubSeq(conv, 1, Len(conv) - 1))
         IN  IF last.role = "user" THEN << UserTurn(last.content) >> \o rest
             ELSE IF last.role = "assistant" THEN << AssistantTurn(last.content) >> \o rest
             ELSE rest

\* The locals of a call that has just been made.
StartLocals(tn, ur, st) ==
    /\ runs' = runs + 1
    /\ thread_name' = tn
    /\ user_request' = ur
    /\ stream' = st
    /\ response' = NoResponse
    /\ tool_calls' = <<>>
    /\ collected_messages' = <<>>
    /\ is_first_message' = TRUE
    /\ n_chunks' = 0
    /\ next_call' = 1
    /\ n_requests' = 0
    /\ events' = <<>>
    /\ messages_at_request' = <<>>
    /\ cancel_at_start' = cancel_run_requested
    /\ cancelled' = FALSE
    /\ request_parameters' = NoRequest

\* Lines 193-195: neither argument given.
\* Mutant: the check of the arguments is made within the try block.
ProcessMessagesNoArguments_WithinTry ==
    /\ Idle
    /\ runs < MaxRuns
    /\ StartLocals(None, None, FALSE)
    /\ pc' = "raised"
    /\ result' = RaisedEngineError("ValueError")
    /\ UNCHANGED << model, messages, token_count, flag, thread, settings, other,
                    threadClient >>

ProcessMessagesNoArguments ==
    /\ Idle
    /\ runs < MaxRuns
    /\ StartLocals(None, None, FALSE)
    /\ pc' = "raised"
    /\ result' = RaisedValueError
    /\ UNCHANGED << model, messages, token_count, flag, thread, settings, other,
                    threadClient >>

\* The history after lines 201-214, the retrieval having succeeded.
InitialTurns(tn, ur, ai) ==
    (IF ai # None THEN << SystemTurn(ai) >> ELSE <<>>)
    \o (IF tn # None THEN ThreadTurns(thread)
        ELSE IF ur # None THEN << UserTurn(ur) >>
        ELSE <<>>)

\* Line 214: only a user_request that is appended is counted.
InitialTokens(tn, ur) ==
    IF tn = None /\ ur # None THEN TokenLen(ur) ELSE 0

\* Mutant: line 212 is an if, not an elif: the user request is appended and
\* counted after the turns of the thread.
ProcessMessages_AppendsRequestToThread(tn, ur, ai, st) ==
    /\ Idle
    /\ runs < MaxRuns
    /\ ~(tn = None /\ ur = None)
    /\ StartLocals(tn, ur, st)
    /\ messages' = messages \o InitialTurns(tn, ur, ai)
                    \o (IF tn # None /\ ur # None THEN << UserTurn(ur) >> ELSE <<>>)
    /\ token_count' = token_count + (IF ur # None THEN TokenLen(ur) ELSE 0)
    /\ pc' = "update_token_count"
    /\ result' = NotEnded
    /\ UNCHANGED << model, flag, thread, settings, other,
                    threadClient >>

\* Lines 197-214.
ProcessMessages(tn, ur, ai, st) ==
    /\ Idle
    /\ runs < MaxRuns
    /\ ~(tn = None /\ ur = None)
    /\ StartLocals(tn, ur, st)
    /\ messages' = messages \o InitialTurns(tn, ur, ai)
    /\ token_count' = token_count + InitialTokens(tn, ur)
    /\ pc' = "update_token_count"
    /\ result' = NotEnded
    /\ UNCHANGED << model, flag, thread, settings, other,
                    threadClient >>

\* Line 206 fails (retrieve_conversation raises EngineError): the system turn
\* of line 202 is already appended.
ProcessMessagesRetrieveFails(tn, ur, ai, st) ==
    /\ Idle
    /\ runs < MaxRuns
    /\ tn # None
    /\ StartLocals(tn, ur, st)
    /\ messages' = messages \o (IF ai # None THEN << SystemTurn(ai) >> ELSE <<>>)
    /\ pc' = "raised"
    /\ result' = RaisedEngineError("retrieve_conversation")
    /\ UNCHANGED << model, token_count, flag, thread, settings, other,
                    threadClient >>

\* ----------------------------------------------------- _update_token_count

OverLimit == token_count > model_conv_token_limit(model)

\* A step of the run that ends it with an exception.
Raise(cause) ==
    /\ pc' = "raised"
    /\ result' = RaisedEngineError(cause)

\* Mutant: a model that is not in the table has no limit.
UpdateTokenCountUnknownModel_NoLimit ==
    /\ pc = "update_token_count"
    /\ ~ModelKnown(model)
    /\ pc' = "on_run_start"
    /\ UNCHANGED << messages, token_count, flag, thread, user_request,
                    response, next_call, n_requests, events, result,
                    messages_at_request, cancelled >>
    /\ UNCHANGED config
    /\ UNCHANGED streamLocals

\* Line 392: the limit of a model that is not in the table is a KeyError.
UpdateTokenCountUnknownModel ==
    /\ pc = "update_token_count"
    /\ ~ModelKnown(model)
    /\ Raise("KeyError")
    /\ UNCHANGED << messages, token_count, flag, thread, user_request,
                    response, next_call, n_requests, events, messages_at_request,
                    cancelled >>
    /\ UNCHANGED config
    /\ UNCHANGED streamLocals

\* Mutant: the function returns after its first test of the limit, whatever
\* the count (an if where the while is).
UpdateTokenCountReturn_IgnoresLimit ==
    /\ pc = "update_token_count"
    /\ ModelKnown(model)
    /\ pc' = "on_run_start"
    /\ UNCHANGED << messages, token_count, flag, thread, user_request,
                    response, next_call, n_requests, events, result,
                    messages_at_request, cancelled >>
    /\ UNCHANGED config
    /\ UNCHANGED streamLocals

\* Lines 392-393: within the limit, the function returns.
UpdateTokenCountReturn ==
    /\ pc = "update_token_count"
    /\ ModelKnown(model)
    /\ ~OverLimit
    /\ pc' = "on_run_start"
    /\ UNCHANGED << messages, token_count, flag, thread, user_request,
                    response, next_call, n_requests, events, result,
                    messages_at_request, cancelled >>
    /\ UNCHANGED config
    /\ UNCHANGED streamLocals

\* What one pass of the while loop does with the oldest message:
\* "evict", "skip" (neither user nor assistant: nothing changes), or the
\* exception that reading it raises.
OldestMessageOutcome(msgs) ==
    IF msgs = <<>> THEN "IndexError"
    ELSE IF msgs[1].obj THEN "TypeError"
    ELSE IF ~Evictable(msgs[1]) THEN "skip"
    ELSE IF msgs[1].content = Missing THEN "KeyError"
    ELSE IF msgs[1].content = None THEN "TypeError"
    ELSE "evict"

\* Lines 394-398, the oldest message being a user or assistant dict.
UpdateTokenCountEvict ==
    /\ pc = "update_token_count"
    /\ ModelKnown(model)
    /\ OverLimit
    /\ OldestMessageOutcome(messages) = "evict"
    /\ token_count' = token_count - TokenLen(messages[1].content)
    /\ messages' = Tail(messages)
    /\ UNCHANGED << flag, thread, pc, user_request, response,
                    next_call, n_requests, events, result, messages_at_request,
                    cancelled >>
    /\ UNCHANGED config
    /\ UNCHANGED streamLocals

\* Mutant: the pass removes the oldest message whatever its role.
UpdateTokenCountSkip_Evicts ==
    /\ pc = "update_token_count"
    /\ ModelKnown(model)
    /\ OverLimit
    /\ OldestMessageOutcome(messages) = "skip"
    /\ messages' = Tail(messages)
    /\ UNCHANGED << token_count, flag, thread, pc, user_request, response,
                    next_call, n_requests, events, result, messages_at_request,
                    cancelled >>
    /\ UNCHANGED config
    /\ UNCHANGED streamLocals

\* Lines 394-395, the oldest message being a system or tool turn: the pass
\* changes nothing and the loop condition is read again.
UpdateTokenCountSkip ==
    /\ pc = "update_token_count"
    /\ ModelKnown(model)
    /\ OverLimit
    /\ OldestMessageOutcome(messages) = "skip"
    /\ UNCHANGED vars

\* Lines 394-396 raise: the history is empty, the oldest message is an object
\* (not subscriptable) or a dict without a text content.
UpdateTokenCountRaises ==
    /\ pc = "update_token_count"
    /\ ModelKnown(model)
    /\ OverLimit
    /\ OldestMessageOutcome(messages) \in {"IndexError", "TypeError", "KeyError"}
    /\ Raise(OldestMessageOutcome(messages))
    /\ UNCHANGED << messages, token_count, flag, thread, user_request,
                    response, next_call, n_requests, events, messages_at_request,
                    cancelled >>
    /\ UNCHANGED config
    /\ UNCHANGED streamLocals

\* ------------------------------------------- process_messages, lines 218-236

\* conversation.get_last_text_message("user"): the newest user message of the
\* thread, None when it has none.
RECURSIVE LastUserText(_)
LastUserText(conv) ==
    IF conv = <<>> THEN None
    ELSE IF conv[1].role = "user" THEN conv[1].content
    ELSE LastUserText(Tail(conv))

\* The initial request on_run_start reports (lines 221-223).
InitialRequest ==
    IF thread_name # None THEN LastUserText(thread) ELSE user_request

\* Lines 218-224: the run id and start time, then on_run_start.
\* Mutant: on_run_start is awaited twice.
OnRunStart_FiresTwice ==
    /\ pc = "on_run_start"
    /\ thread_name # None => LastUserText(thread) # None
    /\ user_request' = InitialRequest
    /\ events' = events \o << OnRunStartEvent(InitialRequest),
                              OnRunStartEvent(InitialRequest) >>
    /\ pc' = "clear_cancel"
    /\ UNCHANGED << messages, token_count, flag, thread, response,
                    next_call, n_requests, result, messages_at_request, cancelled >>
    /\ UNCHANGED config
    /\ UNCHANGED streamLocals

OnRunStart ==
    /\ pc = "on_run_start"
    /\ thread_name # None => LastUserText(thread) # None
    /\ user_request' = InitialRequest
    /\ events' = Append(events, OnRunStartEvent(InitialRequest))
    /\ pc' = "clear_cancel"
    /\ UNCHANGED << messages, token_count, flag, thread, response,
                    next_call, n_requests, result, messages_at_request, cancelled >>
    /\ UNCHANGED config
    /\ UNCHANGED streamLocals

\* Lines 222-223 raise: the second retrieval fails, or the thread has no user
\* text message and .content is read of None.
OnRunStartRaises ==
    /\ pc = "on_run_start"
    /\ thread_name # None
    /\ Raise(IF LastUserText(thread) = None THEN "AttributeError"
             ELSE "retrieve_conversation")
    /\ UNCHANGED << messages, token_count, flag, thread, user_request,
                    response, next_call, n_requests, events, messages_at_request,
                    cancelled >>
    /\ UNCHANGED config
    /\ UNCHANGED streamLocals

\* Mutant: lines 227-228 left out: the flag is not cleared before the loop.
ClearCancel_KeepsFlag ==
    /\ pc = "clear_cancel"
    /\ pc' = "loop"
    /\ UNCHANGED << messages, token_count, flag, thread, user_request, response,
                    next_call, n_requests, events, result, messages_at_request,
                    cancelled >>
    /\ UNCHANGED config
    /\ UNCHANGED streamLocals

\* Mutant: a flag that was set while an earlier run was in its loop is not
\* cleared before the loop.
ClearCancel_KeepsFlagOfEarlierRun ==
    /\ pc = "clear_cancel"
    /\ cancel_run_requested' = (cancel_run_requested /\ cancel_pc \in {"in_flight", "after_loop"})
    /\ cancel_pc' = IF cancel_run_requested' THEN cancel_pc ELSE None
    /\ pc' = "loop"
    /\ UNCHANGED << messages, token_count, thread, user_request, response, next_call,
                    n_requests, events, result, messages_at_request, cancelled >>
    /\ UNCHANGED config
    /\ UNCHANGED streamLocals

\* Lines 226-230: a flag found set before the loop is cleared.
ClearCancel ==
    /\ pc = "clear_cancel"
    /\ cancel_run_requested' = FALSE
    /\ cancel_pc' = None
    /\ pc' = "loop"
    /\ UNCHANGED << messages, token_count, thread, user_request, response, next_call,
                    n_requests, events, result, messages_at_request, cancelled >>
    /\ UNCHANGED config
    /\ UNCHANGED streamLocals

\* Mutant: line 235 left out: the loop is left and the flag stays set.
CancelObserved_KeepsFlag ==
    /\ pc = "loop"
    /\ cancel_run_requested
    /\ cancelled' = TRUE
    /\ pc' = "after_loop"
    /\ UNCHANGED << messages, token_count, flag, thread, user_request, response,
                    next_call, n_requests, events, result, messages_at_request >>
    /\ UNCHANGED config
    /\ UNCHANGED streamLocals

\* Mutant: the loop is also left at the head of the second iteration, a cap
\* on the iterations of a run.
CancelObserved_CapsIterations ==
    /\ pc = "loop"
    /\ cancel_run_requested \/ n_requests >= 1
    /\ cancel_run_requested' = FALSE
    /\ cancel_pc' = None
    /\ cancelled' = TRUE
    /\ pc' = "after_loop"
    /\ UNCHANGED << messages, token_count, thread, user_request, response, next_call,
                    n_requests, events, result, messages_at_request >>
    /\ UNCHANGED config
    /\ UNCHANGED streamLocals

\* Lines 233-236: the flag is set at the head of an iteration: it is cleared
\* and the loop is left.
CancelObserved ==
    /\ pc = "loop"
    /\ cancel_run_requested
    /\ cancel_run_requested' = FALSE
    /\ cancel_pc' = None
    /\ cancelled' = TRUE
    /\ pc' = "after_loop"
    /\ UNCHANGED << messages, token_count, thread, user_request, response, next_call,
                    n_requests, events, result, messages_at_request >>
    /\ UNCHANGED config
    /\ UNCHANGED streamLocals

\* Lines 238-262: the request is made with self._messages.
CreateCompletion ==
    /\ pc = "loop"
    /\ ~cancel_run_requested
    /\ n_requests' = n_requests + 1
    /\ messages_at_request' = messages
    /\ request_parameters' = RequestParameters(text_completion_config)
    /\ pc' = "create"
    /\ UNCHANGED << messages, token_count, flag, thread, user_request,
                    response, next_call, events, result, cancelled >>
    /\ UNCHANGED << model, runs, thread_name, stream, cancel_at_start, settings,
                    other, threadClient >>
    /\ UNCHANGED streamLocals

\* Line 248 raises: the request fails (network, timeout).
CreateCompletionFails ==
    /\ pc = "create"
    /\ Raise("TransportError")
    /\ UNCHANGED << messages, token_count, flag, thread, user_request,
                    response, next_call, n_requests, events, messages_at_request,
                    cancelled >>
    /\ UNCHANGED config
    /\ UNCHANGED streamLocals

\* create_conversation_thread_message(content, thread_name, metadata): the
\* reply becomes the newest message of the thread.
PostToThread(content) == << ThreadMessage("assistant", content) >> \o thread

\* Whether the backend may still ask for tools in this response.
MayCallTools == n_requests < MaxRequests

\* ------------------------------------------ _handle_non_streaming_response

\* Mutant: the message takes the place of the last turn of the history.
NonStreamingContent_ReplacesLastTurn(message) ==
    /\ pc = "create"
    /\ ~stream
    /\ message.content # None
    /\ response' = message
    /\ messages' = IF messages = <<>> THEN << ResponseMessageTurn(message) >>
                   ELSE [messages EXCEPT ![Len(messages)] = ResponseMessageTurn(message)]
    /\ thread' = IF thread_name # None THEN PostToThread(message.content) ELSE thread
    /\ pc' = "after_loop"
    /\ UNCHANGED << token_count, flag, user_request, next_call,
                    n_requests, events, result, messages_at_request, cancelled >>
    /\ UNCHANGED config
    /\ UNCHANGED streamLocals

\* Mutant: line 302 returns True: the loop goes on after a content.
NonStreamingContent_LoopsAgain(message) ==
    /\ pc = "create"
    /\ ~stream
    /\ message.content # None
    /\ response' = message
    /\ messages' = Append(messages, ResponseMessageTurn(message))
    /\ thread' = IF thread_name # None THEN PostToThread(message.content) ELSE thread
    /\ pc' = "loop"
    /\ UNCHANGED << token_count, flag, user_request, next_call,
                    n_requests, events, result, messages_at_request, cancelled >>
    /\ UNCHANGED config
    /\ UNCHANGED streamLocals

\* Lines 291-302: the message is appended; it has a content, which ends the
\* loop whether or not it carries tool calls.
NonStreamingContent(message) ==
    /\ pc = "create"
    /\ ~stream
    /\ message.content # None
    /\ response' = message
    /\ messages' = Append(messages, ResponseMessageTurn(message))
    /\ thread' = IF thread_name # None THEN PostToThread(message.content) ELSE thread
    /\ pc' = "after_loop"
    /\ UNCHANGED << token_count, flag, user_request, next_call,
                    n_requests, events, result, messages_at_request, cancelled >>
    /\ UNCHANGED config
    /\ UNCHANGED streamLocals

\* Line 297 raises: the message is in the history, the thread is not written.
NonStreamingContentPostFails(message) ==
    /\ pc = "create"
    /\ ~stream
    /\ message.content # None
    /\ thread_name # None
    /\ response' = message
    /\ messages' = Append(messages, ResponseMessageTurn(message))
    /\ Raise("create_conversation_thread_message")
    /\ UNCHANGED << token_count, flag, thread, user_request, next_call,
                    n_requests, events, messages_at_request, cancelled >>
    /\ UNCHANGED config
    /\ UNCHANGED streamLocals

\* Lines 291-305: no content, tool calls: the for loop starts.
NonStreamingToolCalls(message) ==
    /\ pc = "create"
    /\ ~stream
    /\ message.content = None
    /\ message.tool_calls # <<>>
    /\ response' = message
    /\ messages' = Append(messages, ResponseMessageTurn(message))
    /\ next_call' = 1
    /\ pc' = "tool_calls"
    /\ UNCHANGED << token_count, flag, thread, user_request,
                    n_requests, events, result, messages_at_request, cancelled >>
    /\ UNCHANGED config
    /\ UNCHANGED streamLocals

\* Lines 291-305: neither content nor tool calls: the handler returns None and
\* the loop ends.
NonStreamingEmpty(message) ==
    /\ pc = "create"
    /\ ~stream
    /\ message.content = None
    /\ message.tool_calls = <<>>
    /\ response' = message
    /\ messages' = Append(messages, ResponseMessageTurn(message))
    /\ pc' = "after_loop"
    /\ UNCHANGED << token_count, flag, thread, user_request, next_call,
                    n_requests, events, result, messages_at_request, cancelled >>
    /\ UNCHANGED config
    /\ UNCHANGED streamLocals

\* The turn a dispatched call appends (lines 313-320, 369-374): its content is
\* the result the handler gave.
DispatchedTurn(call) == ToolTurn(call, _handle_function_call(call.name, call.arguments))

\* The event a dispatched call fires (lines 312, 361-366).
DispatchedEvent(call) ==
    OnFunctionCallProcessedEvent(call.name, call.arguments,
                                 _handle_function_call(call.name, call.arguments))

\* Mutant: the for loop looks at the flag and gives the remaining calls up
\* when it is set.
NonStreamingDispatch_ChecksCancel ==
    /\ pc = "tool_calls"
    /\ next_call <= Len(response.tool_calls)
    /\ IF cancel_run_requested
       THEN /\ cancel_run_requested' = FALSE
            /\ cancel_pc' = None
            /\ cancelled' = TRUE
            /\ pc' = "after_loop"
            /\ UNCHANGED events
       ELSE /\ events' = Append(events, DispatchedEvent(response.tool_calls[next_call]))
            /\ pc' = "tool_call_processed"
            /\ UNCHANGED << flag, cancelled >>
    /\ UNCHANGED << messages, token_count, thread, user_request, response, next_call,
                    n_requests, result, messages_at_request >>
    /\ UNCHANGED config
    /\ UNCHANGED streamLocals

\* Mutant: line 312 left out: the call is not reported.
NonStreamingDispatch_SkipsCallback ==
    /\ pc = "tool_calls"
    /\ next_call <= Len(response.tool_calls)
    /\ pc' = "tool_call_processed"
    /\ UNCHANGED << messages, token_count, flag, thread, user_request, response,
                    next_call, n_requests, events, result, messages_at_request,
                    cancelled >>
    /\ UNCHANGED config
    /\ UNCHANGED streamLocals

\* Lines 306-312: a pass of the for loop calls the handler, then reports the
\* call with its result.
NonStreamingDispatch ==
    /\ pc = "tool_calls"
    /\ next_call <= Len(response.tool_calls)
    /\ events' = Append(events, DispatchedEvent(response.tool_calls[next_call]))
    /\ pc' = "tool_call_processed"
    /\ UNCHANGED << messages, token_count, flag, thread, user_request, response,
                    next_call, n_requests, result, messages_at_request, cancelled >>
    /\ UNCHANGED config
    /\ UNCHANGED streamLocals

\* Lines 313-320: the pass ends with the tool turn appended.
NonStreamingAppendToolTurn ==
    /\ pc = "tool_call_processed"
    /\ messages' = Append(messages, DispatchedTurn(response.tool_calls[next_call]))
    /\ next_call' = next_call + 1
    /\ pc' = "tool_calls"
    /\ UNCHANGED << token_count, flag, thread, user_request, response, n_requests,
                    events, result, messages_at_request, cancelled >>
    /\ UNCHANGED config
    /\ UNCHANGED streamLocals

\* Mutant: the handler returns True as soon as one call is dispatched.
NonStreamingDispatchDone_AfterFirstCall ==
    /\ pc = "tool_calls"
    /\ next_call > 1
    /\ pc' = "loop"
    /\ UNCHANGED << messages, token_count, flag, thread, user_request,
                    response, next_call, n_requests, events, result,
                    messages_at_request, cancelled >>
    /\ UNCHANGED config
    /\ UNCHANGED streamLocals

\* Mutant: _update_token_count is awaited again before the next iteration.
NonStreamingDispatchDone_UpdatesTokenCount ==
    /\ pc = "tool_calls"
    /\ next_call > Len(response.tool_calls)
    /\ pc' = "update_token_count"
    /\ UNCHANGED << messages, token_count, flag, thread, user_request,
                    response, next_call, n_requests, events, result,
                    messages_at_request, cancelled >>
    /\ UNCHANGED config
    /\ UNCHANGED streamLocals

\* Line 321: the handler returns True and the loop goes on.
NonStreamingDispatchDone ==
    /\ pc = "tool_calls"
    /\ next_call > Len(response.tool_calls)
    /\ pc' = "loop"
    /\ UNCHANGED << messages, token_count, flag, thread, user_request,
                    response, next_call, n_requests, events, result,
                    messages_at_request, cancelled >>
    /\ UNCHANGED config
    /\ UNCHANGED streamLocals

\* ----------------------------------------------- _handle_streaming_response

\* Line 248 returns the stream; lines 330-332 of _process_response_chunks.
StreamBegins(chunks) ==
    /\ pc = "create"
    /\ stream
    /\ response' = StreamResponse(chunks)
    /\ tool_calls' = <<>>
    /\ collected_messages' = <<>>
    /\ is_first_message' = TRUE
    /\ n_chunks' = 0
    /\ pc' = "chunks"
    /\ UNCHANGED << messages, token_count, flag, thread, user_request,
                    next_call, n_requests, events, result, messages_at_request,
                    cancelled >>
    /\ UNCHANGED config

\* A fragment's part of a text: None adds nothing.
Part(text) == IF text = None THEN "" ELSE text

\* The descriptor a fragment opens.
Opened(frag) ==
    [index |-> frag.index, id |-> frag.id, name |-> Part(frag.name),
     arguments |-> Part(frag.arguments)]

\* The descriptor in progress with a further fragment of its index.
Extended(call, frag) ==
    [call EXCEPT !.name = @ \o Part(frag.name),
                 !.arguments = @ \o Part(frag.arguments)]

\* Mutant: a fragment that opens a call is put after the calls in progress,
\* whatever its index.
RECURSIVE MergeFragment_OpensLast(_, _)
MergeFragment_OpensLast(calls, frag) ==
    IF calls = <<>> THEN << Opened(frag) >>
    ELSE IF calls[1].index = frag.index
         THEN << Extended(calls[1], frag) >> \o Tail(calls)
    ELSE << calls[1] >> \o MergeFragment_OpensLast(Tail(calls), frag)

\* One fragment merged into the calls in progress, which are kept in the order
\* of their indices.
RECURSIVE MergeFragment(_, _)
MergeFragment(calls, frag) ==
    IF calls = <<>> THEN << Opened(frag) >>
    ELSE IF calls[1].index = frag.index
         THEN << Extended(calls[1], frag) >> \o Tail(calls)
    ELSE IF calls[1].index > frag.index THEN << Opened(frag) >> \o calls
    ELSE << calls[1] >> \o MergeFragment(Tail(calls), frag)

\* BaseChatAssistantClient._append_tool_calls(tool_calls, delta.tool_calls):
\* the fragments of a delta merged in their order.
RECURSIVE _append_tool_calls(_, _)
_append_tool_calls(calls, frags) ==
    IF frags = <<>> THEN calls
    ELSE _append_tool_calls(MergeFragment(calls, frags[1]), Tail(frags))

\* The calls in progress as the descriptors the run dispatches.
Descriptors(calls) ==
    [i \in 1..Len(calls) |-> ToolCall(calls[i].id, calls[i].name, calls[i].arguments)]

\* delta.content is a text that is not empty.
HasContent(chunk) == chunk.choices /\ chunk.content \notin {None, ""}

HasToolCalls(chunk) == chunk.choices /\ chunk.tool_calls # <<>>

\* Mutant: every text of the stream is appended to the history as it comes.
ProcessResponseChunk_AppendsText ==
    /\ pc = "chunks"
    /\ n_chunks < Len(response.chunks)
    /\ n_chunks' = n_chunks + 1
    /\ LET chunk == response.chunks[n_chunks + 1]
       IN  /\ IF HasContent(chunk)
              THEN /\ events' = Append(events, OnRunUpdateEvent("streaming", chunk.content))
                   /\ collected_messages' = Append(collected_messages, chunk.content)
                   /\ is_first_message' = FALSE
                   /\ messages' = Append(messages, AssistantTurn(chunk.content))
              ELSE UNCHANGED << events, collected_messages, is_first_message, messages >>
           /\ tool_calls' = IF HasToolCalls(chunk)
                            THEN _append_tool_calls(tool_calls, chunk.tool_calls)
                            ELSE tool_calls
    /\ UNCHANGED << token_count, flag, thread, pc, user_request, response, next_call,
                    n_requests, result, messages_at_request, cancelled >>
    /\ UNCHANGED config

\* The delta the stream delivers next.
NextChunk == response.chunks[n_chunks + 1]

\* Mutant: line 343 passes an empty list instead of the calls in progress.
ProcessResponseChunk_RestartsToolCalls ==
    /\ pc = "chunks"
    /\ n_chunks < Len(response.chunks)
    /\ n_chunks' = n_chunks + 1
    /\ IF HasContent(NextChunk)
       THEN /\ events' = Append(events, OnRunUpdateEvent("streaming", NextChunk.content))
            /\ collected_messages' = Append(collected_messages, NextChunk.content)
            /\ is_first_message' = FALSE
       ELSE UNCHANGED << events, collected_messages, is_first_message >>
    /\ tool_calls' = IF HasToolCalls(NextChunk)
                     THEN _append_tool_calls(<<>>, NextChunk.tool_calls)
                     ELSE tool_calls
    /\ UNCHANGED << messages, token_count, flag, thread, pc,
                    user_request, response, next_call, n_requests, result,
                    messages_at_request, cancelled >>
    /\ UNCHANGED config

\* Mutant: line 336 tests the delta only: a delta without a text is reported
\* and collected too.
ProcessResponseChunk_ReportsEveryDelta ==
    /\ pc = "chunks"
    /\ n_chunks < Len(response.chunks)
    /\ n_chunks' = n_chunks + 1
    /\ IF NextChunk.choices
       THEN /\ events' = Append(events, OnRunUpdateEvent("streaming", NextChunk.content))
            /\ collected_messages' = Append(collected_messages, NextChunk.content)
            /\ is_first_message' = FALSE
       ELSE UNCHANGED << events, collected_messages, is_first_message >>
    /\ tool_calls' = IF HasToolCalls(NextChunk)
                     THEN _append_tool_calls(tool_calls, NextChunk.tool_calls)
                     ELSE tool_calls
    /\ UNCHANGED << messages, token_count, flag, thread, pc,
                    user_request, response, next_call, n_requests, result,
                    messages_at_request, cancelled >>
    /\ UNCHANGED config

\* Lines 334-343: one delta of the stream.
ProcessResponseChunk ==
    /\ pc = "chunks"
    /\ n_chunks < Len(response.chunks)
    /\ n_chunks' = n_chunks + 1
    /\ IF HasContent(NextChunk)
       THEN /\ events' = Append(events, OnRunUpdateEvent("streaming", NextChunk.content))
            /\ collected_messages' = Append(collected_messages, NextChunk.content)
            /\ is_first_message' = FALSE
       ELSE UNCHANGED << events, collected_messages, is_first_message >>
    /\ tool_calls' = IF HasToolCalls(NextChunk)
                     THEN _append_tool_calls(tool_calls, NextChunk.tool_calls)
                     ELSE tool_calls
    /\ UNCHANGED << messages, token_count, flag, thread, pc,
                    user_request, response, next_call, n_requests, result,
                    messages_at_request, cancelled >>
    /\ UNCHANGED config

\* The iteration over the stream raises (line 334): the connection failed.
StreamFails ==
    /\ pc = "chunks"
    /\ Raise("TransportError")
    /\ UNCHANGED << messages, token_count, flag, thread, user_request,
                    response, next_call, n_requests, events, messages_at_request,
                    cancelled >>
    /\ UNCHANGED config
    /\ UNCHANGED streamLocals

\* The stream ends (line 345); lines 348-353 of _process_tool_calls.
StreamEnds ==
    /\ pc = "chunks"
    /\ n_chunks = Len(response.chunks)
    /\ messages' = IF tool_calls # <<>>
                   THEN Append(messages, ToolCallsTurn(Descriptors(tool_calls)))
                   ELSE messages
    /\ next_call' = 1
    /\ pc' = "stream_tool_calls"
    /\ UNCHANGED << token_count, flag, thread, user_request, response,
                    n_requests, events, result, messages_at_request, cancelled >>
    /\ UNCHANGED config
    /\ UNCHANGED streamLocals

\* Mutant: the failure of a handler is raised from the for loop.
StreamingDispatch_PropagatesFailure ==
    /\ pc = "stream_tool_calls"
    /\ next_call <= Len(tool_calls)
    /\ LET call == Descriptors(tool_calls)[next_call]
       IN  IF _handle_function_call(call.name, call.arguments) = "sunny"
           THEN /\ events' = Append(events, DispatchedEvent(call))
                /\ pc' = "stream_tool_call_processed"
                /\ UNCHANGED result
           ELSE /\ Raise("ToolExecutionError")
                /\ UNCHANGED events
    /\ UNCHANGED << messages, token_count, flag, thread, user_request, response,
                    next_call, n_requests, messages_at_request, cancelled >>
    /\ UNCHANGED config
    /\ UNCHANGED streamLocals

\* Lines 355-366: a pass of the for loop calls the handler, then reports the
\* call with its result.
StreamingDispatch ==
    /\ pc = "stream_tool_calls"
    /\ next_call <= Len(tool_calls)
    /\ events' = Append(events, DispatchedEvent(Descriptors(tool_calls)[next_call]))
    /\ pc' = "stream_tool_call_processed"
    /\ UNCHANGED << messages, token_count, flag, thread, user_request, response,
                    next_call, n_requests, result, messages_at_request, cancelled >>
    /\ UNCHANGED config
    /\ UNCHANGED streamLocals

\* Lines 368-374: the pass ends with the tool turn appended.
StreamingAppendToolTurn ==
    /\ pc = "stream_tool_call_processed"
    /\ messages' = Append(messages, DispatchedTurn(Descriptors(tool_calls)[next_call]))
    /\ next_call' = next_call + 1
    /\ pc' = "stream_tool_calls"
    /\ UNCHANGED << token_count, flag, thread, user_request, response, n_requests,
                    events, result, messages_at_request, cancelled >>
    /\ UNCHANGED config
    /\ UNCHANGED streamLocals

\* ''.join(filter(None, collected_messages)).
RECURSIVE Join(_)
Join(texts) == IF texts = <<>> THEN "" ELSE texts[1] \o Join(Tail(texts))

\* Mutant: line 327 returns True whatever the stream gave.
UpdateConversationWithMessages_AlwaysLoops ==
    /\ pc = "stream_tool_calls"
    /\ next_call > Len(tool_calls)
    /\ thread' = IF Join(collected_messages) # "" /\ thread_name # None
                 THEN PostToThread(Join(collected_messages))
                 ELSE thread
    /\ pc' = "loop"
    /\ UNCHANGED << messages, token_count, flag, user_request,
                    response, next_call, n_requests, events, result,
                    messages_at_request, cancelled >>
    /\ UNCHANGED config
    /\ UNCHANGED streamLocals

\* Lines 376-384, then line 327: the text goes to the thread when there is a
\* thread, and the loop goes on when there were tool calls.
UpdateConversationWithMessages ==
    /\ pc = "stream_tool_calls"
    /\ next_call > Len(tool_calls)
    /\ thread' = IF Join(collected_messages) # "" /\ thread_name # None
                 THEN PostToThread(Join(collected_messages))
                 ELSE thread
    /\ pc' = IF tool_calls # <<>> THEN "loop" ELSE "after_loop"
    /\ UNCHANGED << messages, token_count, flag, user_request,
                    response, next_call, n_requests, events, result,
                    messages_at_request, cancelled >>
    /\ UNCHANGED config
    /\ UNCHANGED streamLocals

\* Line 379 raises.
UpdateConversationPostFails ==
    /\ pc = "stream_tool_calls"
    /\ next_call > Len(tool_calls)
    /\ Join(collected_messages) # ""
    /\ thread_name # None
    /\ Raise("create_conversation_thread_message")
    /\ UNCHANGED << messages, token_count, flag, thread, user_request,
                    response, next_call, n_requests, events, messages_at_request,
                    cancelled >>
    /\ UNCHANGED config
    /\ UNCHANGED streamLocals

\* ------------------------------------------- process_messages, lines 272-288

\* BaseChatAssistantClient._reset_system_messages(assistant_config): the turns
\* of the history are kept.
_reset_system_messages(msgs) == msgs

\* Whether lines 278-282 are taken.
ReturnsResponse == thread_name = None /\ ~stream

\* Mutant: lines 278-282 left out: on_run_end never carries the response and
\* the call returns None.
EndRun_WithoutText ==
    /\ pc = "after_loop"
    /\ messages' = _reset_system_messages(messages)
    /\ events' = events \o << OnRunUpdateEvent("completed", None), OnRunEndEvent(None) >>
    /\ result' = Returned(None)
    /\ pc' = "returned"
    /\ UNCHANGED << token_count, flag, thread, user_request, response,
                    next_call, n_requests, messages_at_request, cancelled >>
    /\ UNCHANGED config
    /\ UNCHANGED streamLocals

\* Lines 272-284: the run ends: on_run_update "completed", on_run_end and the
\* return; without a thread and without streaming, with the content of the
\* last response.
EndRun ==
    /\ pc = "after_loop"
    /\ ReturnsResponse => response.kind = "message"
    /\ messages' = _reset_system_messages(messages)
    /\ events' = events \o << OnRunUpdateEvent("completed", None),
                              OnRunEndEvent(IF ReturnsResponse THEN response.content
                                            ELSE None) >>
    /\ result' = Returned(IF ReturnsResponse THEN response.content ELSE None)
    /\ pc' = "returned"
    /\ UNCHANGED << token_count, flag, thread, user_request, response,
                    next_call, n_requests, messages_at_request, cancelled >>
    /\ UNCHANGED config
    /\ UNCHANGED streamLocals

\* Line 280 raises: response is still None (no request was made), after the
\* "completed" update has fired.
EndRunRaises ==
    /\ pc = "after_loop"
    /\ ReturnsResponse
    /\ response.kind = "none"
    /\ messages' = _reset_system_messages(messages)
    /\ events' = Append(events, OnRunUpdateEvent("completed", None))
    /\ Raise("AttributeError")
    /\ UNCHANGED << token_count, flag, thread, user_request, response,
                    next_call, n_requests, messages_at_request, cancelled >>
    /\ UNCHANGED config
    /\ UNCHANGED streamLocals

\* ------------------------------------------------------------ specification

\* The arguments of the calls.
ThreadNames == {None, "thread"}

UserRequests == {None, "hi", "essay"}

AdditionalInstructions == {None, "be brief"}

\* The messages the backend may answer a request with.
Messages ==
    { Message(c, t) : c \in ResponseContents,
                      t \in IF MayCallTools THEN ResponseToolCalls ELSE {<<>>} }

\* The streams the backend may answer a request with.
Streams == TextStreams \cup (IF MayCallTools THEN ToolCallStreams ELSE {})

Next ==
    \/ CancelProcessing
    \/ ProcessMessagesNoArguments
    \/ \E tn \in ThreadNames, ur \in UserRequests, ai \in AdditionalInstructions,
          st \in BOOLEAN :
          \/ ProcessMessages(tn, ur, ai, st)
          \/ ProcessMessagesRetrieveFails(tn, ur, ai, st)
    \/ UpdateTokenCountUnknownModel
    \/ UpdateTokenCountReturn
    \/ UpdateTokenCountEvict
    \/ UpdateTokenCountSkip
    \/ UpdateTokenCountRaises
    \/ OnRunStart
    \/ OnRunStartRaises
    \/ ClearCancel
    \/ CancelObserved
    \/ CreateCompletion
    \/ CreateCompletionFails
    \/ \E message \in Messages : NonStreamingContent(message)
    \/ \E message \in Messages : NonStreamingContentPostFails(message)
    \/ \E message \in Messages : NonStreamingToolCalls(message)
    \/ \E message \in Messages : NonStreamingEmpty(message)
    \/ NonStreamingDispatch
    \/ NonStreamingAppendToolTurn
    \/ NonStreamingDispatchDone
    \/ \E chunks \in Streams : StreamBegins(chunks)
    \/ ProcessResponseChunk
    \/ StreamFails
    \/ StreamEnds
    \/ StreamingDispatch
    \/ StreamingAppendToolTurn
    \/ UpdateConversationWithMessages
    \/ UpdateConversationPostFails
    \/ EndRun
    \/ EndRunRaises

Spec == Init /\ [][Next]_vars

\* A step of the call in progress: every action but the making of a call and
\* the setting of the flag, which are the caller's.
RunStep ==
    \/ UpdateTokenCountUnknownModel
    \/ UpdateTokenCountReturn
    \/ UpdateTokenCountEvict
    \/ UpdateTokenCountSkip
    \/ UpdateTokenCountRaises
    \/ OnRunStart
    \/ OnRunStartRaises
    \/ ClearCancel
    \/ CancelObserved
    \/ CreateCompletion
    \/ CreateCompletionFails
    \/ \E message \in Messages : NonStreamingContent(message)
    \/ \E message \in Messages : NonStreamingContentPostFails(message)
    \/ \E message \in Messages : NonStreamingToolCalls(message)
    \/ \E message \in Messages : NonStreamingEmpty(message)
    \/ NonStreamingDispatch
    \/ NonStreamingAppendToolTurn
    \/ NonStreamingDispatchDone
    \/ \E chunks \in Streams : StreamBegins(chunks)
    \/ ProcessResponseChunk
    \/ StreamFails
    \/ StreamEnds
    \/ StreamingDispatch
    \/ StreamingAppendToolTurn
    \/ UpdateConversationWithMessages
    \/ UpdateConversationPostFails
    \/ EndRun
    \/ EndRunRaises

\* The event loop resumes the coroutine of the call whenever what it awaits is
\* done: the backend answers every request and ends every stream, every
\* handler and every callback returns. The backend answers with tool calls
\* MaxRequests - 1 times in a row at most (MayCallTools).
SpecLive == Init /\ [][Next]_vars /\ WF_vars(RunStep)

\* ------------------------------------------- the assembly of streamed calls

\* The name and the arguments of a streamed tool call, in the pieces at whose
\* borders the backend may cut them.
NamePieces == << "get_", "wea", "ther" >>

ArgumentPieces == << "{", "city", "}" >>

\* The pieces a to b of a text as one text; None (the delta has no such part)
\* when there is none.
RECURSIVE Concat(_, _, _)
Concat(pieces, a, b) ==
    IF a > b THEN None
    ELSE IF a = b THEN pieces[a]
    ELSE pieces[a] \o Concat(pieces, a + 1, b)

\* The ways of cutting n pieces into k consecutive parts, empty ones allowed:
\* part i ends with piece c[i].
Cuts(n, k) ==
    { c \in [0..k -> 0..n] :
        c[0] = 0 /\ c[k] = n /\ \A i \in 1..k : c[i - 1] <= c[i] }

\* The call of index 0 delivered in k deltas, its name cut by cn and its
\* arguments by ca; the first fragment carries the id.
SplitStream(k, cn, ca) ==
    [i \in 1..k |->
        ToolCallsChunk(<< Fragment(0, IF i = 1 THEN "call_1" ELSE None,
                                   Concat(NamePieces, cn[i - 1] + 1, cn[i]),
                                   Concat(ArgumentPieces, ca[i - 1] + 1, ca[i])) >>)]

SplitStreams ==
    UNION { { SplitStream(k, cn, ca) : cn \in Cuts(Len(NamePieces), k),
                                       ca \in Cuts(Len(ArgumentPieces), k) } :
            k \in 1..MaxFragments }

\* Two calls, each delivered in two fragments.
WeatherFragments ==
    << Fragment(0, "call_1", "get_weather", None), Fragment(0, None, None, "{}") >>

TimeFragments ==
    << Fragment(1, "call_2", "get_time", None), Fragment(1, None, None, "{}") >>

\* The orders in which the fragments of the two calls may arrive, those of one
\* call in their own order.
Interleavings ==
    { f \in [1..4 -> {WeatherFragments[1], WeatherFragments[2],
                      TimeFragments[1], TimeFragments[2]}] :
        \E w1, w2, t1, t2 \in 1..4 :
            /\ w1 < w2 /\ t1 < t2 /\ {w1, w2, t1, t2} = 1..4
            /\ f[w1] = WeatherFragments[1] /\ f[w2] = WeatherFragments[2]
            /\ f[t1] = TimeFragments[1] /\ f[t2] = TimeFragments[2] }

\* The fragments from position from on, delivered in deltas that end after the
\* positions of ends and after the last fragment.
RECURSIVE Delivered(_, _, _)
Delivered(frags, ends, from) ==
    LET later == { e \in ends : e >= from }
        end == IF later = {} THEN Len(frags)
               ELSE CHOOSE e \in later : \A x \in later : e <= x
    IN  << ToolCallsChunk(SubSeq(frags, from, end)) >>
        \o (IF end = Len(frags) THEN <<>> ELSE Delivered(frags, ends, end + 1))

InterleavedStreams ==
    { Delivered(f, ends, 1) : f \in Interleavings, ends \in SUBSET (1..3) }

\* A first run has made its first request, a streamed one, and the backend
\* answers with one of these streams (the state StreamBegins leaves).
InitAssembly ==
    /\ model = "gpt-3"
    /\ messages = << UserTurn("hi") >>
    /\ token_count = TokenLen("hi")
    /\ cancel_run_requested = FALSE
    /\ thread \in InitialThreads
    /\ pc = "chunks"
    /\ runs = 1
    /\ thread_name = None
    /\ user_request = "hi"
    /\ stream = TRUE
    /\ response \in { StreamResponse(chunks) : chunks \in SplitStreams \cup InterleavedStreams }
    /\ tool_calls = <<>>
    /\ collected_messages = <<>>
    /\ is_first_message = TRUE
    /\ n_chunks = 0
    /\ next_call = 1
    /\ n_requests = 1
    /\ events = << OnRunStartEvent("hi") >>
    /\ result = NotEnded
    /\ messages_at_request = << UserTurn("hi") >>
    /\ cancel_at_start = FALSE
    /\ cancel_pc = None
    /\ cancelled = FALSE
    /\ completion_settings = NoCompletionSettings
    /\ text_completion_config = _setup_completion_settings(completion_settings)
    /\ request_parameters = RequestParameters(text_completion_config)
    /\ other_pc = "idle"
    /\ other_request = <<>>
    /\ NoThreadClientCalls

NextAssembly ==
    \/ ProcessResponseChunk
    \/ StreamEnds

SpecAssembly == InitAssembly /\ [][NextAssembly]_vars

\* ------------------------------------------------- the completion settings

\* The dictionaries a configuration may hold under 'completion_settings'.
CompletionSettings ==
    { CompletionData(fp, mt, pp, rf, t, tp, sd, None) :
        fp \in {"0.0", "0.5"}, mt \in {"100", "1000"}, pp \in {"0.0", "0.5"},
        rf \in {"text", "json_object"}, t \in {"0.7", "1.0"},
        tp \in {"0.9", "1.0"}, sd \in {None, "42"} }

\* A client as constructed from a configuration with or without completion
\* settings (assistant_config.py, line 664).
InitSettings ==
    /\ model = "gpt-3"
    /\ messages = <<>>
    /\ token_count = 0
    /\ cancel_run_requested = FALSE
    /\ thread \in InitialThreads
    /\ pc = "idle"
    /\ runs = 0
    /\ thread_name = None
    /\ user_request = None
    /\ stream = FALSE
    /\ response = NoResponse
    /\ tool_calls = <<>>
    /\ collected_messages = <<>>
    /\ is_first_message = TRUE
    /\ n_chunks = 0
    /\ next_call = 1
    /\ n_requests = 0
    /\ events = <<>>
    /\ result = NotEnded
    /\ messages_at_request = <<>>
    /\ cancel_at_start = FALSE
    /\ cancel_pc = None
    /\ cancelled = FALSE
    /\ completion_settings \in CompletionSettings \cup {NoCompletionSettings}
    /\ text_completion_config = _setup_completion_settings(completion_settings)
    /\ request_parameters = NoRequest
    /\ other_pc = "idle"
    /\ other_request = <<>>
    /\ NoThreadClientCalls

\* A call with a user request, up to its first request.
NextSettings ==
    \/ ProcessMessages(None, "hi", None, FALSE)
    \/ UpdateTokenCountReturn
    \/ OnRunStart
    \/ ClearCancel
    \/ CreateCompletion

SpecSettings == InitSettings /\ [][NextSettings]_vars

\* ------------------------------------------------------ overlapping calls

\* The first call is suspended at an await of its loop that hands control to
\* the event loop: the request of line 248, or the handler of line 307 that
\* runs in another thread.
Suspended ==
    \/ pc = "create"
    \/ pc = "tool_calls" /\ next_call <= Len(response.tool_calls)

\* Another task calls process_messages(user_request=ur) on the same client
\* while the first call is suspended; nothing in the class keeps it from
\* running. Lines 197-248 of the second call run without handing control
\* back: the user turn is appended and counted (212-214), the count is within
\* the limit (216), the flag is cleared (226-228) and the request is made with
\* self._messages (250).
OtherProcessMessages(ur) ==
    /\ other_pc = "idle"
    /\ Suspended
    /\ ModelKnown(model)
    /\ token_count + TokenLen(ur) <= model_conv_token_limit(model)
    /\ messages' = Append(messages, UserTurn(ur))
    /\ token_count' = token_count + TokenLen(ur)
    /\ cancel_run_requested' = FALSE
    /\ cancel_pc' = None
    /\ other_request' = messages'
    /\ other_pc' = "create"
    /\ UNCHANGED << model, thread, pc, runs, thread_name, user_request, stream,
                    response, next_call, n_requests, events, result,
                    messages_at_request, cancel_at_start, cancelled, settings,
                    request_parameters, threadClient >>
    /\ UNCHANGED streamLocals

\* The second call is resumed with the response to its request, a content
\* without tool calls, while the first call is suspended or over: the message
\* is appended (292) and the call returns (302, 273-284).
OtherResponse(message) ==
    /\ other_pc = "create"
    /\ Suspended \/ Idle
    /\ message.content # None
    /\ message.tool_calls = <<>>
    /\ messages' = Append(messages, ResponseMessageTurn(message))
    /\ other_pc' = "returned"
    /\ UNCHANGED << model, token_count, flag, thread, pc, runs, thread_name,
                    user_request, stream, response, next_call, n_requests, events,
                    result, messages_at_request, cancel_at_start, cancelled,
                    settings, request_parameters, other_request, threadClient >>
    /\ UNCHANGED streamLocals

\* The user request of the second call.
OtherRequests == {"bye"}

\* A client of a model with a known limit.
InitOverlap == Init /\ ModelKnown(model)

\* Atomic calls with a user request, and a second call that overlaps one of
\* them.
NextOverlap ==
    \/ ProcessMessages(None, "hi", None, FALSE)
    \/ UpdateTokenCountReturn
    \/ OnRunStart
    \/ ClearCancel
    \/ CreateCompletion
    \/ \E message \in Messages : NonStreamingContent(message)
    \/ \E message \in Messages : NonStreamingToolCalls(message)
    \/ NonStreamingDispatch
    \/ NonStreamingAppendToolTurn
    \/ NonStreamingDispatchDone
    \/ EndRun
    \/ \E ur \in OtherRequests : OtherProcessMessages(ur)
    \/ \E message \in Messages : OtherResponse(message)

SpecOverlap == InitOverlap /\ [][NextOverlap]_vars

\* ------------------------------------------------------------ get_instance

\* The chat client's state.
chat == << model, messages, token_count, cancel_run_requested, thread, pc, runs,
           thread_name, user_request, stream, response, streamLocals, next_call,
           n_requests, events, result, messages_at_request, cancel_at_start,
           cancel_pc, cancelled, settings, request_parameters, other >>

\* get_instance(ai_client_type, config_folder) is called: the first
\* `if ai_client_type not in cls._instances`, read without the lock.
GetInstance(c, ai_client_type, config_folder) ==
    /\ callers[c].pc = "idle"
    /\ callers' = [callers EXCEPT ![c] =
                       [@ EXCEPT !.pc = IF ai_client_type \in DOMAIN _instances
                                        THEN "return" ELSE "lock",
                                 !.ai_client_type = ai_client_type,
                                 !.config_folder = config_folder]]
    /\ UNCHANGED << _instances, _lock, objects, thread_config, remote,
                    method_call, chat >>

\* `with cls._lock`: the caller waits until the lock is free.
AcquireLock(c) ==
    /\ callers[c].pc = "lock"
    /\ _lock = {}
    /\ _lock' = {c}
    /\ callers' = [callers EXCEPT ![c].pc = "recheck"]
    /\ UNCHANGED << _instances, objects, thread_config, remote,
                    method_call, chat >>

\* Recheck without the second test: the caller that got the lock always
\* creates an instance.
Recheck_AlwaysCreates(c) ==
    /\ callers[c].pc = "recheck"
    /\ _lock' = _lock
    /\ callers' = [callers EXCEPT ![c].pc = "new"]
    /\ UNCHANGED << _instances, objects, thread_config, remote,
                    method_call, chat >>

\* The second `if ai_client_type not in cls._instances`, under the lock; when
\* the instance is there the with block ends and the lock is released.
Recheck(c) ==
    /\ callers[c].pc = "recheck"
    /\ IF callers[c].ai_client_type \in DOMAIN _instances
       THEN /\ _lock' = {}
            /\ callers' = [callers EXCEPT ![c].pc = "return"]
       ELSE /\ _lock' = _lock
            /\ callers' = [callers EXCEPT ![c].pc = "new"]
    /\ UNCHANGED << _instances, objects, thread_config, remote,
                    method_call, chat >>

\* instance = cls.__new__(cls): an object without attributes.
New(c) ==
    /\ callers[c].pc = "new"
    /\ objects' = Append(objects, [ai_client_type |-> Missing,
                                   config_folder |-> Missing,
                                   initialised |-> FALSE])
    /\ callers' = [callers EXCEPT ![c] =
                       [@ EXCEPT !.pc = "init", !.instance = Len(objects) + 1]]
    /\ UNCHANGED << _instances, _lock, thread_config, remote,
                    method_call, chat >>

\* instance.__init_private(ai_client_type, config_folder=config_folder, ...)
\* sets every attribute of the object.
InitPrivate(c) ==
    /\ callers[c].pc = "init"
    /\ objects' = [objects EXCEPT ![callers[c].instance] =
                       [ai_client_type |-> callers[c].ai_client_type,
                        config_folder |-> callers[c].config_folder,
                        initialised |-> TRUE]]
    /\ callers' = [callers EXCEPT ![c].pc = "store"]
    /\ UNCHANGED << _instances, _lock, thread_config, remote,
                    method_call, chat >>

\* __init_private raises in AIClientFactory.get_client, after the first two
\* attributes are set; the exception leaves the with block, which releases the
\* lock, and get_instance.
InitPrivateFails(c) ==
    /\ callers[c].pc = "init"
    /\ objects' = [objects EXCEPT ![callers[c].instance] =
                       [ai_client_type |-> callers[c].ai_client_type,
                        config_folder |-> callers[c].config_folder,
                        initialised |-> FALSE]]
    /\ _lock' = {}
    /\ callers' = [callers EXCEPT ![c].pc = "raised"]
    /\ UNCHANGED << _instances, thread_config, remote,
                    method_call, chat >>

\* cls._instances[ai_client_type] = instance
Store(c) ==
    /\ callers[c].pc = "store"
    /\ _instances' = [t \in DOMAIN _instances \cup {callers[c].ai_client_type} |->
                          IF t = callers[c].ai_client_type
                          THEN callers[c].instance
                          ELSE _instances[t]]
    /\ callers' = [callers EXCEPT ![c].pc = "release"]
    /\ UNCHANGED << _lock, objects, thread_config, remote,
                    method_call, chat >>

\* The with block ends: the lock is released.
Release(c) ==
    /\ callers[c].pc = "release"
    /\ _lock' = {}
    /\ callers' = [callers EXCEPT ![c].pc = "return"]
    /\ UNCHANGED << _instances, objects, thread_config, remote,
                    method_call, chat >>

\* return cls._instances[ai_client_type]
Return(c) ==
    /\ callers[c].pc = "return"
    /\ callers' = [callers EXCEPT ![c] =
                       [@ EXCEPT !.pc = "done",
                                 !.result = _instances[callers[c].ai_client_type]]]
    /\ UNCHANGED << _instances, _lock, objects, thread_config, remote,
                    method_call, chat >>

NextInstance ==
    \/ \E c \in 1..MaxCallers, t \in ClientTypes, f \in ConfigFolders :
           GetInstance(c, t, f)
    \/ \E c \in 1..MaxCallers : AcquireLock(c)
    \/ \E c \in 1..MaxCallers : Recheck(c)
    \/ \E c \in 1..MaxCallers : New(c)
    \/ \E c \in 1..MaxCallers : InitPrivate(c)
    \/ \E c \in 1..MaxCallers : InitPrivateFails(c)
    \/ \E c \in 1..MaxCallers : Store(c)
    \/ \E c \in 1..MaxCallers : Release(c)
    \/ \E c \in 1..MaxCallers : Return(c)

\* Concurrent callers of get_instance, the chat client at rest.
SpecInstance == InitOverlap /\ [][NextInstance]_vars

\* ------------------------------------------- _update_message_attachments

\* No call of a thread client method is running, and one more may be made.
AtRest ==
    /\ method_call.pc \in {"idle", "returned", "raised"}
    /\ method_call.calls < MaxCalls

\* The file ids of the elements that carry one.
FileIdsOf(attachments) ==
    { attachments[i].file_id : i \in { j \in DOMAIN attachments :
                                          attachments[j].file_id # None } }

\* _update_message_attachments(thread_id, new_attachments), lines 288-291: the
\* stored attachments are read and those whose file_id is not among the new
\* ones are listed for removal.
UpdateMessageAttachments(thread_id, new_attachments) ==
    /\ AtRest
    /\ LET existing == thread_config.attachments[thread_id]
           attachments_to_remove ==
               SelectSeq(existing,
                         LAMBDA att : att.file_id \notin FileIdsOf(new_attachments))
       IN /\ \A i \in DOMAIN existing : existing[i].file_id # Missing
          /\ method_call' =
                 [NoCall EXCEPT
                     !.calls = method_call.calls + 1,
                     !.method = "_update_message_attachments",
                     !.pc = IF attachments_to_remove = << >>
                            THEN "collect" ELSE "remove",
                     !.thread_id = thread_id,
                     !.new_attachments = new_attachments,
                     !.existing = existing,
                     !.deleted = remote.deleted,
                     !.attachments_to_remove = attachments_to_remove]
    /\ UNCHANGED << thread_config, remote, _instances, _lock,
                    objects, callers, chat >>

\* Line 289 on a stored attachment without file_id: KeyError.
UpdateMessageAttachmentsStoredKeyError(thread_id, new_attachments) ==
    /\ AtRest
    /\ LET existing == thread_config.attachments[thread_id]
       IN /\ \E i \in DOMAIN existing : existing[i].file_id = Missing
          /\ method_call' =
                 [NoCall EXCEPT
                     !.calls = method_call.calls + 1,
                     !.method = "_update_message_attachments",
                     !.pc = "raised",
                     !.error = "KeyError",
                     !.thread_id = thread_id,
                     !.new_attachments = new_attachments,
                     !.existing = existing,
                     !.deleted = remote.deleted]
    /\ UNCHANGED << thread_config, remote, _instances, _lock,
                    objects, callers, chat >>

\* Lines 293-295: the attachment is removed from the thread configuration and
\* the service deletes the file.
RemoveAttachment ==
    /\ method_call.pc = "remove"
    /\ LET attachment == Head(method_call.attachments_to_remove)
       IN /\ attachment.file_id \in remote.files
          /\ thread_config' = remove_attachment_from_thread(
                                  thread_config, method_call.thread_id, attachment.file_id)
          /\ remote' = [remote EXCEPT !.files = @ \ {attachment.file_id},
                                      !.deleted = Append(@, attachment.file_id)]
          /\ method_call' =
                 [method_call EXCEPT
                     !.attachments_to_remove = Tail(@),
                     !.pc = IF Tail(method_call.attachments_to_remove) = << >>
                            THEN "collect" ELSE "remove"]
    /\ UNCHANGED << _instances, _lock, objects, callers, chat >>

\* Lines 294-295 when files.delete raises: the attachment is gone from the
\* thread configuration, the file is not deleted.
RemoveAttachmentDeleteFails ==
    /\ method_call.pc = "remove"
    /\ LET attachment == Head(method_call.attachments_to_remove)
       IN thread_config' = remove_attachment_from_thread(
                               thread_config, method_call.thread_id, attachment.file_id)
    /\ method_call' = [method_call EXCEPT !.pc = "raised", !.error = "remote"]
    /\ UNCHANGED << remote, _instances, _lock,
                    objects, callers, chat >>

\* The loop of line 298 stands at an element.
InUpdateLoop ==
    /\ method_call.pc = "collect"
    /\ Len(method_call.all_updated_attachments) < Len(method_call.new_attachments)

\* The element the loop of line 298 stands at.
CurrentElement ==
    method_call.new_attachments[Len(method_call.all_updated_attachments) + 1]

\* Lines 304-308: an element without file_id is uploaded, added to the thread
\* configuration and collected.
UploadAttachment ==
    /\ InUpdateLoop
    /\ CurrentElement.file_id = None
    /\ remote.uploads < Len(UploadIds)
    /\ LET new_attachment == Attachment(CurrentElement.file_name,
                                        UploadIds[remote.uploads + 1],
                                        CurrentElement.tools)
       IN /\ remote' = [remote EXCEPT !.files = @ \cup {new_attachment.file_id},
                                      !.uploads = @ + 1]
          /\ thread_config' = add_attachments_to_thread(
                                  thread_config, method_call.thread_id, << new_attachment >>)
          /\ method_call' = [method_call EXCEPT
                                !.all_updated_attachments = Append(@, new_attachment)]
    /\ UNCHANGED << _instances, _lock, objects, callers, chat >>

\* Line 305 when files.create raises.
UploadAttachmentFails ==
    /\ InUpdateLoop
    /\ CurrentElement.file_id = None
    /\ method_call' = [method_call EXCEPT !.pc = "raised", !.error = "remote"]
    /\ UNCHANGED << thread_config, remote, _instances, _lock,
                    objects, callers, chat >>

\* Lines 310-314: an element with a file_id. The stored attachment of that
\* file_id, or {} when there is none, gets the element's tools when it is {}
\* or its tools differ, and is collected.
KeepAttachment ==
    /\ InUpdateLoop
    /\ CurrentElement.file_id # None
    /\ LET EmptyDict == Attachment(Missing, Missing, Missing)
           file_id == CurrentElement.file_id
           stored == SelectSeq(method_call.existing, LAMBDA att : att.file_id = file_id)
           current_attachment == IF stored = << >> THEN EmptyDict ELSE stored[Len(stored)]
           updated == [current_attachment EXCEPT !.tools = CurrentElement.tools]
       IN IF current_attachment = EmptyDict
             \/ current_attachment.tools # CurrentElement.tools
          THEN /\ thread_config' = update_attachment_in_thread(
                                       thread_config, method_call.thread_id, updated)
               /\ method_call' = [method_call EXCEPT
                                     !.all_updated_attachments = Append(@, updated)]
          ELSE /\ thread_config' = thread_config
               /\ method_call' = [method_call EXCEPT
                                     !.all_updated_attachments = Append(@, current_attachment)]
    /\ UNCHANGED << remote, _instances, _lock,
                    objects, callers, chat >>

\* Lines 316-318, both loops done: the collected attachments are stored for
\* the thread and their file_id and tools are returned.
ReturnUpdatedAttachments ==
    /\ method_call.pc = "collect"
    /\ Len(method_call.all_updated_attachments) = Len(method_call.new_attachments)
    /\ \A i \in DOMAIN method_call.all_updated_attachments :
           method_call.all_updated_attachments[i].file_id # Missing
    /\ thread_config' = set_attachments_of_thread(
                            thread_config, method_call.thread_id,
                            method_call.all_updated_attachments)
    /\ method_call' =
           [method_call EXCEPT
               !.pc = "returned",
               !.updated_attachments =
                   [i \in DOMAIN method_call.all_updated_attachments |->
                        [file_id |-> method_call.all_updated_attachments[i].file_id,
                         tools |-> method_call.all_updated_attachments[i].tools]]]
    /\ UNCHANGED << remote, _instances, _lock,
                    objects, callers, chat >>

\* Lines 316-317 when a collected attachment has no file_id: the collected
\* attachments are stored, then att['file_id'] raises KeyError.
ReturnUpdatedAttachmentsKeyError ==
    /\ method_call.pc = "collect"
    /\ Len(method_call.all_updated_attachments) = Len(method_call.new_attachments)
    /\ \E i \in DOMAIN method_call.all_updated_attachments :
           method_call.all_updated_attachments[i].file_id = Missing
    /\ thread_config' = set_attachments_of_thread(
                            thread_config, method_call.thread_id,
                            method_call.all_updated_attachments)
    /\ method_call' = [method_call EXCEPT !.pc = "raised", !.error = "KeyError"]
    /\ UNCHANGED << remote, _instances, _lock,
                    objects, callers, chat >>

\* ------------------------------------------------ delete_conversation_thread

\* delete_conversation_thread(thread_name), lines 337-339: the thread id is
\* looked up and the thread is removed from the thread configuration.
DeleteConversationThread(name) ==
    /\ AtRest
    /\ LET thread_id == get_thread_id_by_name(thread_config, name)
       IN /\ thread_config' = remove_thread_by_id(thread_config, thread_id)
          /\ method_call' = [NoCall EXCEPT !.calls = method_call.calls + 1,
                                           !.method = "delete_conversation_thread",
                                           !.pc = "delete",
                                           !.thread_name = name,
                                           !.thread_id = thread_id]
    /\ UNCHANGED << remote, _instances, _lock,
                    objects, callers, chat >>

\* Lines 340-344: the service deletes the thread.
DeleteRemoteThread ==
    /\ method_call.pc = "delete"
    /\ method_call.thread_id \in remote.threads
    /\ remote' = [remote EXCEPT !.threads = @ \ {method_call.thread_id}]
    /\ method_call' = [method_call EXCEPT !.pc = "returned"]
    /\ UNCHANGED << thread_config, _instances, _lock,
                    objects, callers, chat >>

\* Lines 340 and 345-347: threads.delete raises, EngineError is raised.
DeleteRemoteThreadFails ==
    /\ method_call.pc = "delete"
    /\ method_call' = [method_call EXCEPT !.pc = "raised", !.error = "EngineError"]
    /\ UNCHANGED << thread_config, remote, _instances, _lock,
                    objects, callers, chat >>

NextThreadClient ==
    \/ \E t \in ThreadIds, n \in NewAttachmentLists : UpdateMessageAttachments(t, n)
    \/ \E t \in ThreadIds, n \in NewAttachmentLists :
           UpdateMessageAttachmentsStoredKeyError(t, n)
    \/ RemoveAttachment
    \/ RemoveAttachmentDeleteFails
    \/ UploadAttachment
    \/ UploadAttachmentFails
    \/ KeepAttachment
    \/ ReturnUpdatedAttachments
    \/ ReturnUpdatedAttachmentsKeyError
    \/ \E n \in {"first", "second"} : DeleteConversationThread(n)
    \/ DeleteRemoteThread
    \/ DeleteRemoteThreadFails

\* Calls of the thread client's methods, one after the other, the chat client
\* at rest.
SpecThreadClient == InitOverlap /\ [][NextThreadClient]_vars

\* ------------------------------------------------------------------ claims

TokenLimit == model_conv_token_limit(model)

HasEvictable(msgs) == \E i \in 1..Len(msgs) : Evictable(msgs[i])

\* The last n turns of the history.
LastTurns(n) == SubSeq(messages, Len(messages) - n + 1, Len(messages))

\* C1: _update_token_count terminates for every history: it never makes a
\* pass that inspects an oldest turn of role system or tool, which would leave
\* the history and the count as they are with the limit still exceeded, and so
\* be repeated forever. (A pass that evicts shortens the history, a pass that
\* raises ends the call.)
C1_UpdateTokenCountTerminates ==
    ~( /\ pc = "update_token_count"
       /\ ModelKnown(model)
       /\ token_count > TokenLimit
       /\ messages # <<>>
       /\ ~messages[1].obj
       /\ messages[1].role \in {"system", "tool"} )

\* C2: when _update_token_count has returned, the count is within the limit
\* or no user or assistant turn is left in the history.
C2_BudgetEnforcedOnReturn ==
    pc = "on_run_start" => (token_count <= TokenLimit \/ ~HasEvictable(messages))

\* C2, witness: the call has appended a request that exceeds the limit and
\* the function has returned after evicting it.
C2_Witness ==
    /\ pc = "on_run_start"
    /\ thread_name = None
    /\ user_request = "essay"
    /\ messages = <<>>
    /\ token_count = 0

FinalText == Join(collected_messages)

\* C4: a streamed response without tool calls and with a text has, when the
\* run has returned, left an assistant turn with that text at the end of the
\* history.
C4_StreamedTextIsAppended ==
    ( /\ pc = "returned"
      /\ response.kind = "stream"
      /\ tool_calls = <<>>
      /\ FinalText # "" )
    => ( /\ messages # <<>>
         /\ messages[Len(messages)].role = "assistant"
         /\ messages[Len(messages)].content = FinalText )

\* The tool turns of calls, in their order, are the last turns of the history.
ToolTurnsAppended(calls) ==
    /\ Len(messages) >= Len(calls)
    /\ \A i \in 1..Len(calls) :
          LET turn == LastTurns(Len(calls))[i]
          IN  /\ turn.role = "tool"
              /\ turn.tool_call_id = calls[i].id
              /\ turn.name = calls[i].name

\* C5: a non-streamed response that carries tool calls takes the tool-call
\* path whatever its content: the loop is not left on it (but by a
\* cancellation seen at the next iteration), and every call has its tool turn.
C5_ToolCallsAreDispatched ==
    ( /\ pc = "after_loop"
      /\ response.kind = "message"
      /\ response.tool_calls # <<>> )
    => (cancelled /\ ToolTurnsAppended(response.tool_calls))

\* The run has ended on a response, not by a cancellation.
Completed == pc = "returned" /\ ~cancelled

\* The answer of the response the run ended on, None when it has none.
FinalAnswer ==
    CASE response.kind = "message" -> response.content
      [] response.kind = "stream" -> IF FinalText = "" THEN None ELSE FinalText
      [] OTHER -> None

\* The text on_run_end was fired with.
RunEndText == events[Len(events)].text

RunEndFired == events # <<>> /\ events[Len(events)].cb = "on_run_end"

TransportFailed == pc = "raised" /\ result.error = "EngineError: TransportError"

\* C7: when the request fails, also within a streamed response, the call has
\* raised and the history is the one the request was made with.
C7_FailedRequestLeavesHistory ==
    TransportFailed => (result.kind = "raised" /\ messages = messages_at_request)

\* C7, witness: the second request of a run, a streamed one, has failed after
\* a delta with a text was consumed.
C7_Witness ==
    /\ TransportFailed
    /\ n_requests = 2
    /\ n_chunks = 1
    /\ collected_messages # <<>>

\* The turns of the iteration just finished, its response having carried
\* calls: the assistant turn with the calls, then their tool turns.
IterationTurnsAppended(calls) ==
    /\ Len(messages) = Len(messages_at_request) + 1 + Len(calls)
    /\ SubSeq(messages, 1, Len(messages_at_request)) = messages_at_request
    /\ messages[Len(messages_at_request) + 1].role = "assistant"
    /\ messages[Len(messages_at_request) + 1].tool_calls = calls
    /\ ToolTurnsAppended(calls)

\* The calls of the response of the current iteration.
ResponseCalls ==
    IF response.kind = "stream" THEN Descriptors(tool_calls) ELSE response.tool_calls

\* C8: a step taken while an iteration is in flight never cancels the run,
\* flag set or not; a cancellation requested in flight is still pending at the
\* head of the next iteration, where all turns of the finished iteration are in
\* the history; and the step the run takes from there leaves the loop
\* cancelled, with no request issued and no turn appended.
C8_CancelWaitsForIterationBoundary ==
    [][ /\ InFlight => ~cancelled'
        /\ (InFlight /\ cancel_run_requested /\ pc' = "loop")
              => (cancel_run_requested' /\ IterationTurnsAppended(ResponseCalls)')
        /\ (pc = "loop" /\ cancel_run_requested /\ pc' # pc)
              => /\ pc' = "after_loop"
                 /\ cancelled'
                 /\ n_requests' = n_requests
                 /\ messages' = messages ]_vars

\* C8, witness: a cancellation was requested while an iteration with two tool
\* calls was in flight; the run stands at the head of the next iteration with
\* the three turns of the iteration appended.
C8_Witness ==
    /\ pc = "loop"
    /\ cancel_run_requested
    /\ cancel_pc = "in_flight"
    /\ n_requests = 1
    /\ Len(ResponseCalls) = 2
    /\ IterationTurnsAppended(ResponseCalls)

\* C9 as claimed: no call returns with the flag still set by a request that
\* was made while one of its iterations was in flight.
C9_CancelConsumedExactlyOnce ==
    ~(pc = "returned" /\ cancel_run_requested /\ cancel_pc = "in_flight")

\* C9 as amended: the flag is cleared at two places only. At the head of an
\* iteration a pending request is always consumed: the flag is cleared and the
\* run leaves the loop cancelled. Before the loop (lines 226-228) a pending
\* request is dropped: the flag is cleared and the run is not cancelled. A
\* request made during the iteration that ends the run stays pending when the
\* call ends.
C9_CancelConsumedAtBoundaryOrDropped ==
    [][ /\ (cancel_run_requested /\ ~cancel_run_requested')
              => \/ pc = "loop" /\ pc' = "after_loop" /\ cancelled'
                 \/ pc = "clear_cancel" /\ pc' = "loop" /\ ~cancelled'
        /\ (pc = "loop" /\ cancel_run_requested /\ pc' # pc)
              => (~cancel_run_requested' /\ cancelled')
        /\ (InFlight /\ cancel_run_requested /\ pc' \in {"after_loop", "raised"})
              => cancel_run_requested' ]_vars

\* C9, witness: a call has returned with the flag still set by a request made
\* while its last iteration was in flight.
C9_Witness ==
    /\ pc = "returned"
    /\ ~cancelled
    /\ cancel_run_requested
    /\ cancel_pc = "in_flight"

\* C10: a cancelled run does not raise, and has appended no turn after the
\* one it was cancelled at.
C10_CancelledRunReturnsNormally ==
    cancelled => pc # "raised"

\* The tokens of the user turns of a history.
RECURSIVE UserTokens(_)
UserTokens(msgs) ==
    IF msgs = <<>> THEN 0
    ELSE (IF msgs[1].role = "user" THEN TokenLen(msgs[1].content) ELSE 0)
         + UserTokens(Tail(msgs))

\* The first call on a client has appended its turns and _update_token_count
\* has not yet removed any of them.
FirstHistoryAppended ==
    /\ runs = 1
    /\ pc = "update_token_count"
    /\ \E ai \in AdditionalInstructions :
          messages = InitialTurns(thread_name, user_request, ai)

\* C11: the count has grown by the tokens of every user turn appended, those
\* loaded from a thread included: when the first call on a client has appended
\* its turns, the count is the tokens of the user turns of the history.
C11_UserTurnsAreCounted ==
    FirstHistoryAppended => token_count = UserTokens(messages)

\* The turns of a history that the budget never counts and never evicts.
Uncounted(msgs) == SelectSeq(msgs, LAMBDA turn : ~Evictable(turn))

\* The turns a step has appended (the history it started from being kept).
Appended(old, new) == SubSeq(new, Len(old) + 1, Len(new))

\* C12: a pass of _update_token_count leaves every system and tool turn in the
\* history; a step that appends only system or tool turns leaves the count
\* as it is; and a call that appends a system turn and a user request raises
\* the count by the tokens of the request alone.
C12_SystemAndToolTurnsUntouched ==
    [][ /\ pc = "update_token_count" => Uncounted(messages') = Uncounted(messages)
        /\ ( /\ Len(messages') > Len(messages)
             /\ SubSeq(messages', 1, Len(messages)) = messages
             /\ \A i \in 1..Len(Appended(messages, messages')) :
                   Appended(messages, messages')[i].role \in {"system", "tool"} )
              => token_count' = token_count
        /\ (Idle /\ pc' = "update_token_count" /\ thread_name' = None)
              => token_count' = token_count + TokenLen(user_request') ]_vars

\* C12, witness: the second call on a client has evicted the oldest user turn
\* of a history that holds a tool turn and a system turn, both still there.
C12_Witness ==
    /\ runs = 2
    /\ pc = "update_token_count"
    /\ token_count = 2100
    /\ \E i \in 1..Len(messages) : messages[i].role = "tool"
    /\ \E i \in 1..Len(messages) : messages[i].role = "system"

\* C13, the case of the claim: the limit is exceeded and no user or assistant
\* turn is left in the history.
BudgetExceeded ==
    /\ pc = "update_token_count"
    /\ ModelKnown(model)
    /\ OverLimit
    /\ ~HasEvictable(messages)

\* A pass of a for loop over the tool calls is about to call the handler.
Dispatching ==
    /\ pc \in {"tool_calls", "stream_tool_calls"}
    /\ next_call <= Len(ResponseCalls)

\* The handler has run and the call is reported; its turn is not yet appended.
Processed == pc \in {"tool_call_processed", "stream_tool_call_processed"}

\* The call of the current pass.
CurrentCall == ResponseCalls[next_call]

\* The handler of a call fails: the function is not registered, it raises, or
\* the arguments do not parse.
HandlerFails(call) == _handle_function_call(call.name, call.arguments) # "sunny"

\* The for loop over the calls of a response is done.
DispatchDone ==
    /\ pc \in {"tool_calls", "stream_tool_calls"}
    /\ ResponseCalls # <<>>
    /\ next_call > Len(ResponseCalls)

\* C14: a failing handler never ends the run: the pass that calls it does not
\* raise, its tool turn, with the id of the call and a content that is not
\* empty, is appended, and when the for loop is done the run goes to its next
\* iteration (a streamed run may still fail to post the text of the response
\* to the thread).
C14_FailedHandlerDoesNotAbortRun ==
    [][ /\ (Dispatching /\ HandlerFails(CurrentCall) /\ pc' # pc) => Processed'
        /\ (Processed /\ HandlerFails(CurrentCall) /\ pc' # pc)
              => /\ pc' \in {"tool_calls", "stream_tool_calls"}
                 /\ Len(messages') = Len(messages) + 1
                 /\ SubSeq(messages', 1, Len(messages)) = messages
                 /\ messages'[Len(messages')].role = "tool"
                 /\ messages'[Len(messages')].tool_call_id = CurrentCall.id
                 /\ messages'[Len(messages')].content \notin {"", None, Missing, "sunny"}
        /\ (DispatchDone /\ pc' # pc)
              => \/ pc' = "loop"
                 \/ /\ pc' = "raised"
                    /\ stream /\ thread_name # None /\ FinalText # ""
                    /\ result'.error = "EngineError: create_conversation_thread_message" ]_vars

\* C14, witness: the calls of an unregistered function and of one with
\* arguments that do not parse have their tool turns in the history and the
\* run has issued its next request.
C14_Witness ==
    /\ pc = "create"
    /\ n_requests = 2
    /\ Len(messages) >= 2
    /\ LastTurns(2)[1].role = "tool"
    /\ LastTurns(2)[1].content = "error: unknown function"
    /\ LastTurns(2)[2].role = "tool"
    /\ LastTurns(2)[2].content = "error: arguments"

\* C15: a response that carries tool calls has, when its iteration is over,
\* grown the history by the assistant turn with the calls and then one tool
\* turn per call, in the order of the calls; and the next request is made with
\* a history that ends with these tool turns.
C15_ToolCallsGrowHistoryInOrder ==
    /\ (pc \in {"loop", "after_loop"} /\ n_requests > 0 /\ ResponseCalls # <<>>)
          => IterationTurnsAppended(ResponseCalls)
    /\ (pc = "create" /\ n_requests > 1)
          => (messages_at_request = messages /\ ToolTurnsAppended(ResponseCalls))

\* C16: a pass of a for loop over the tool calls first reports the call, with
\* its name, its arguments and the result of the handler, the history being as
\* it was; then appends the tool turn, whose content is the result reported,
\* and reports nothing more; and no other step reports a call.
C16_CallReportedOnceBeforeItsTurn ==
    [][ /\ (Dispatching /\ pc' # pc)
              => /\ Processed'
                 /\ events' = Append(events,
                        OnFunctionCallProcessedEvent(CurrentCall.name, CurrentCall.arguments,
                            _handle_function_call(CurrentCall.name, CurrentCall.arguments)))
                 /\ messages' = messages
                 /\ next_call' = next_call
        /\ (Processed /\ pc' # pc)
              => /\ events' = events
                 /\ events[Len(events)].cb = "on_function_call_processed"
                 /\ messages' = Append(messages,
                        ToolTurn(CurrentCall, events[Len(events)].text))
                 /\ next_call' = next_call + 1
                 /\ pc' \in {"tool_calls", "stream_tool_calls"}
        /\ ( /\ Len(events') > Len(events)
             /\ events'[Len(events')].cb = "on_function_call_processed" )
              => Dispatching ]_vars

\* C16, witness: the failed call of get_time is reported and its turn is not
\* yet in the history, which ends with the turn of the call before it.
C16_Witness ==
    /\ Processed
    /\ next_call = 2
    /\ events[Len(events)] =
          OnFunctionCallProcessedEvent("get_time", "{}", "error: get_time failed")
    /\ messages[Len(messages)].role = "tool"
    /\ messages[Len(messages)].name = "get_weather"

\* The stream has been consumed to its end.
StreamConsumed == pc = "chunks" /\ n_chunks = Len(response.chunks)

\* The call of SplitStreams delivered in one fragment.
UnsplitFragment ==
    Fragment(0, "call_1", Concat(NamePieces, 1, Len(NamePieces)),
             Concat(ArgumentPieces, 1, Len(ArgumentPieces)))

\* C17: however the name and the arguments of a call are cut into fragments,
\* the stream once consumed has assembled the descriptor that the single
\* unsplit fragment gives, and that descriptor is what the run records.
C17_AssemblyInvariantUnderSplits ==
    /\ (StreamConsumed /\ response.chunks \in SplitStreams)
          => /\ tool_calls = _append_tool_calls(<<>>, << UnsplitFragment >>)
             /\ Descriptors(tool_calls) = << ToolCall("call_1", "get_weather", "{city}") >>
    /\ (pc = "stream_tool_calls" /\ response.chunks \in SplitStreams)
          => messages[Len(messages)] =
                ToolCallsTurn(<< ToolCall("call_1", "get_weather", "{city}") >>)

\* C17, witness: a stream of three fragments that cuts both the name and the
\* arguments within has been consumed.
C17_Witness ==
    /\ StreamConsumed
    /\ Len(response.chunks) = 3
    /\ response.chunks[2].tool_calls[1].name = "wea"
    /\ response.chunks[2].tool_calls[1].arguments = "city"
    /\ Descriptors(tool_calls) = << ToolCall("call_1", "get_weather", "{city}") >>

\* The fragments of a stream in the order of their arrival.
RECURSIVE Fragments(_)
Fragments(chunks) ==
    IF chunks = <<>> THEN <<>>
    ELSE (IF HasToolCalls(chunks[1]) THEN chunks[1].tool_calls ELSE <<>>)
         \o Fragments(Tail(chunks))

OfIndex(frags, index) == SelectSeq(frags, LAMBDA frag : frag.index = index)

RECURSIVE JoinNames(_)
JoinNames(frags) ==
    IF frags = <<>> THEN "" ELSE Part(frags[1].name) \o JoinNames(Tail(frags))

RECURSIVE JoinArguments(_)
JoinArguments(frags) ==
    IF frags = <<>> THEN "" ELSE Part(frags[1].arguments) \o JoinArguments(Tail(frags))

\* C18: a stream once consumed has assembled one call per index that occurs in
\* it, in the order of the indices, each with the id of the fragment that
\* opened it and with the names and arguments of the fragments of its index
\* alone, in their order of arrival.
C18_OneDescriptorPerIndex ==
    StreamConsumed =>
        LET frags == Fragments(response.chunks)
            indices == { frags[k].index : k \in 1..Len(frags) }
        IN  /\ Len(tool_calls) = Cardinality(indices)
            /\ \A j \in 1..Len(tool_calls) :
                  LET own == OfIndex(frags, tool_calls[j].index)
                  IN  /\ tool_calls[j].index \in indices
                      /\ j > 1 => tool_calls[j - 1].index < tool_calls[j].index
                      /\ tool_calls[j].id = own[1].id
                      /\ tool_calls[j].name = JoinNames(own)
                      /\ tool_calls[j].arguments = JoinArguments(own)

\* C18, witness: the call of index 1 was opened before the call of index 0
\* and their fragments arrived interleaved, in three deltas; the stream is
\* consumed and the calls stand in the order of their indices.
C18_Witness ==
    /\ StreamConsumed
    /\ Len(response.chunks) = 3
    /\ Fragments(response.chunks) = << TimeFragments[1], WeatherFragments[1],
                                       TimeFragments[2], WeatherFragments[2] >>
    /\ Descriptors(tool_calls) = << WeatherCall, TimeCall >>

\* The texts of a stream that are not empty, in the order of their arrival.
RECURSIVE TextsOf(_)
TextsOf(chunks) ==
    IF chunks = <<>> THEN <<>>
    ELSE (IF HasContent(chunks[1]) THEN << chunks[1].content >> ELSE <<>>)
         \o TextsOf(Tail(chunks))

\* The last n events of the run.
LastEvents(n) == SubSeq(events, Len(events) - n + 1, Len(events))

\* C19: the step that consumes a delta fires one "streaming" on_run_update
\* with its text when the text is not empty, and none otherwise; when the
\* stream is consumed, the texts collected and the events fired for it are the
\* texts of the stream in the order of their arrival; and the text posted to
\* the thread is their concatenation.
C19_TextConcatenatedAndReported ==
    [][ /\ (pc = "chunks" /\ n_chunks' = n_chunks + 1)
              => events' = IF HasContent(NextChunk)
                           THEN Append(events, OnRunUpdateEvent("streaming", NextChunk.content))
                           ELSE events
        /\ (pc = "chunks" /\ pc' = "stream_tool_calls")
              => /\ collected_messages = TextsOf(response.chunks)
                 /\ Len(events) >= Len(TextsOf(response.chunks))
                 /\ LastEvents(Len(TextsOf(response.chunks))) =
                        [i \in 1..Len(TextsOf(response.chunks)) |->
                            OnRunUpdateEvent("streaming", TextsOf(response.chunks)[i])]
        /\ ( /\ pc = "stream_tool_calls"
             /\ pc' \in {"loop", "after_loop"}
             /\ thread_name # None
             /\ TextsOf(response.chunks) # <<>> )
              => thread' = << ThreadMessage("assistant", Join(TextsOf(response.chunks))) >>
                           \o thread ]_vars

\* C19, witness: a run on a thread has consumed the stream "hel", "lo": both
\* texts were reported in that order and "hello" is the newest message of the
\* thread.
C19_Witness ==
    /\ pc = "after_loop"
    /\ thread_name # None
    /\ response = StreamResponse(<< TextChunk("hel"), TextChunk("lo") >>)
    /\ LastEvents(2) = << OnRunUpdateEvent("streaming", "hel"),
                          OnRunUpdateEvent("streaming", "lo") >>
    /\ thread[1] = ThreadMessage("assistant", "hello")

\* The stream of the last request gave neither a text nor a tool call.
EmptyStream ==
    /\ response.kind = "stream"
    /\ tool_calls = <<>>
    /\ FinalText = ""

\* C20: a stream that gave neither a text nor a tool call ends the loop with
\* the history as it was when the request was made, and the run then returns
\* (None, after on_run_update "completed" and on_run_end) without another
\* request.
C20_EmptyStreamCompletesRun ==
    [][ /\ (pc = "stream_tool_calls" /\ EmptyStream /\ pc' # pc)
              => /\ pc' = "after_loop"
                 /\ messages' = messages
                 /\ messages = messages_at_request
                 /\ n_requests' = n_requests
                 /\ ~cancelled'
        /\ (pc = "after_loop" /\ EmptyStream /\ pc' # pc)
              => /\ pc' = "returned"
                 /\ result' = Returned(None)
                 /\ messages' = messages_at_request
                 /\ n_requests' = n_requests
                 /\ events' = events \o << OnRunUpdateEvent("completed", None),
                                            OnRunEndEvent(None) >> ]_vars

\* C20, witness: a run whose only request was answered by a stream without
\* any delta has returned, the history being the one of the request.
C20_Witness ==
    /\ Completed
    /\ response = StreamResponse(<<>>)
    /\ n_requests = 1
    /\ messages = messages_at_request
    /\ result = Returned(None)

\* old is the beginning of new.
IsPrefix(old, new) ==
    /\ Len(old) <= Len(new)
    /\ SubSeq(new, 1, Len(old)) = old

\* The call is in its request/dispatch loop (lines 231-270).
InLoop == pc = "loop" \/ InFlight

\* C21: a step of the request/dispatch loop leaves every turn of the history
\* in its place and as it is, and only appends; before the loop is left, the
\* only step that takes a turn away is the eviction of the oldest turn by
\* _update_token_count.
C21_HistoryIsAppendOnlyInLoop ==
    [][ /\ InLoop => IsPrefix(messages, messages')
        /\ (pc # "after_loop" /\ ~IsPrefix(messages, messages'))
              => /\ pc = "update_token_count"
                 /\ messages' = Tail(messages)
                 /\ Evictable(messages[1]) ]_vars

\* C21, witness: the second iteration of a run on a client whose history
\* began with the turn "hi" has ended; the history still begins with it and
\* has grown by the turns of both iterations.
C21_Witness ==
    /\ pc = "after_loop"
    /\ n_requests = 2
    /\ messages[1] = UserTurn("hi")
    /\ Len(messages) >= 4
    /\ Len(messages) > Len(messages_at_request)

\* C22: a request after the first of a run is issued from the head of an
\* iteration only, when the for loop over the calls of the response before is
\* done and the history holds the turns of that iteration, the tool turn of
\* every call included, and it is made with that history; and while a request,
\* a stream or a dispatch is in flight no request is issued.
C22_RequestsAreSequential ==
    [][ /\ (n_requests' > n_requests /\ n_requests >= 1)
              => /\ pc = "loop"
                 /\ n_requests' = n_requests + 1
                 /\ next_call = Len(ResponseCalls) + 1
                 /\ IterationTurnsAppended(ResponseCalls)
                 /\ messages_at_request' = messages
        /\ InFlight => n_requests' = n_requests ]_vars

\* C22, witness: the second request of a run is in flight; the response to
\* the first carried two calls, whose tool turns end the history the request
\* was made with.
C22_Witness ==
    /\ pc = "create"
    /\ n_requests = 2
    /\ Len(ResponseCalls) = 2
    /\ messages_at_request = messages
    /\ ToolTurnsAppended(ResponseCalls)

\* The call has not come to line 224 yet.
BeforeRunStart == pc \in {"idle", "update_token_count", "on_run_start"}

\* C24: on_run_start fires once per run, first of the callbacks, with the
\* initial turns appended and no request made yet; on_run_end fires at most
\* once, as the last callback of a call that returns, right after the
\* "completed" on_run_update, hence after every request and every
\* on_function_call_processed; every callback carries the run_id of the call.
C24_CallbacksAreOrdered ==
    /\ BeforeRunStart => (events = <<>> /\ n_requests = 0)
    /\ (n_requests >= 1 \/ pc \in {"clear_cancel", "loop", "after_loop", "returned"})
          => events # <<>>
    /\ \A i \in 1..Len(events) :
          /\ (events[i].cb = "on_run_start") <=> (i = 1)
          /\ events[i].run_id = runs
          /\ events[i].cb = "on_run_end"
                => /\ i = Len(events)
                   /\ i > 1
                   /\ events[i - 1] = OnRunUpdateEvent("completed", None)
                   /\ pc = "returned"
    /\ events # <<>> => events[1] = OnRunStartEvent(user_request)

\* C24, witness: the second call on the client has returned after two requests
\* and a dispatch; its last callback is on_run_end.
C24_Witness ==
    /\ pc = "returned"
    /\ runs = 2
    /\ n_requests = 2
    /\ \E i \in 1..Len(events) : events[i].cb = "on_function_call_processed"
    /\ events[Len(events)].cb = "on_run_end"

\* C25: on a client whose history is the user turn "hi", within budget, an
\* atomic call without a thread whose first response has the content "hello"
\* and no tool calls ends its loop with that request: the history grows by
\* the assistant turn "hello" alone and the call returns "hello".
C25_AtomicAnswerEndsRun ==
    ( /\ ~stream
      /\ thread_name = None
      /\ n_requests = 1
      /\ messages_at_request = << UserTurn("hi") >>
      /\ response = Message("hello", <<>>) )
    => /\ pc \in {"after_loop", "returned"}
       /\ Len(messages) = 2
       /\ messages[1] = UserTurn("hi")
       /\ messages[2].role = "assistant"
       /\ messages[2].content = "hello"
       /\ messages[2].tool_calls = <<>>
       /\ pc = "returned" => result = Returned("hello")

\* C25, witness: such a call has returned.
C25_Witness ==
    /\ pc = "returned"
    /\ ~stream
    /\ thread_name = None
    /\ n_requests = 1
    /\ messages_at_request = << UserTurn("hi") >>
    /\ response = Message("hello", <<>>)
    /\ result = Returned("hello")

\* The tool turns of the calls of the assistant turn at i follow it, one per
\* call, in the order of the calls, each with the id of its call.
FollowedByToolTurns(msgs, i) ==
    LET calls == msgs[i].tool_calls
    IN  /\ i + Len(calls) <= Len(msgs)
        /\ \A j \in 1..Len(calls) :
              /\ msgs[i + j].role = "tool"
              /\ msgs[i + j].tool_call_id = calls[j].id

\* Every assistant turn of msgs that has tool calls is followed by their tool
\* turns.
WellFormed(msgs) ==
    \A i \in 1..Len(msgs) :
        (msgs[i].role = "assistant" /\ msgs[i].tool_calls # <<>>)
            => FollowedByToolTurns(msgs, i)

\* C26: each response that carries tool calls is followed by one more request
\* of the run, so that the last response of a completed run carries none and
\* a run with k such responses has made k+1 requests; after an atomic
\* response with the one call get_weather the history gains the assistant turn
\* with the call and the tool turn "sunny" and the run is still to make its
\* next request.
C26_ToolCallsAreFollowedByARequest ==
    /\ Completed => ResponseCalls = <<>>
    /\ ( /\ pc = "loop"
         /\ ~stream
         /\ n_requests >= 1
         /\ response = Message(None, << WeatherCall >>) )
        => /\ Len(messages) = Len(messages_at_request) + 2
           /\ LastTurns(2) = << ResponseMessageTurn(response),
                                ToolTurn(WeatherCall, "sunny") >>

\* C28: when an iteration has ended without an error, every assistant turn of
\* the history that has tool calls is followed at once by one tool turn per
\* call, in the order of the calls and with their ids.
C28_ToolTurnsFollowTheirCalls ==
    pc \in {"loop", "after_loop", "returned"} => WellFormed(messages)

\* C29: the token count is never negative.
C29_TokenCountIsNeverNegative == token_count >= 0

\* The sampling parameters of the request but the seed are those configured,
\* or None when nothing is configured.
SettingsButSeedCarried ==
    IF completion_settings.kind = "none"
    THEN /\ request_parameters.temperature = None
         /\ request_parameters.top_p = None
         /\ request_parameters.frequency_penalty = None
         /\ request_parameters.presence_penalty = None
         /\ request_parameters.max_tokens = None
         /\ request_parameters.response_format = NoResponseFormat
    ELSE /\ request_parameters.temperature = completion_settings.temperature
         /\ request_parameters.top_p = completion_settings.top_p
         /\ request_parameters.frequency_penalty = completion_settings.frequency_penalty
         /\ request_parameters.presence_penalty = completion_settings.presence_penalty
         /\ request_parameters.max_tokens = completion_settings.max_tokens
         /\ request_parameters.response_format
              = ResponseFormat(completion_settings.response_format)

\* C27: a request carries the configured temperature, top_p, frequency and
\* presence penalties, max_tokens, seed and response format as they were
\* configured, and None for each when no completion settings are configured.
C27_RequestCarriesConfiguredSettings ==
    request_parameters.kind = "request"
        => /\ SettingsButSeedCarried
           /\ request_parameters.seed = completion_settings.seed

\* msgs holds an assistant turn whose calls the handler dispatches (it has no
\* content), without the tool turns of all its calls after it: an iteration
\* that is appended in part.
PartialIteration(msgs) ==
    \E i \in 1..Len(msgs) :
        /\ msgs[i].role = "assistant"
        /\ msgs[i].tool_calls # <<>>
        /\ msgs[i].content = None
        /\ ~FollowedByToolTurns(msgs, i)

\* C30: when two process_messages calls on one client overlap, the turns of an
\* iteration of the first call stand together in the history, right after the
\* history its request was made with, and the request of the second call does
\* not carry an iteration of the first that is appended in part.
C30_OverlappingCallsKeepApart ==
    /\ (pc = "loop" /\ n_requests >= 1) => IterationTurnsAppended(ResponseCalls)
    /\ other_pc # "idle" => ~PartialIteration(other_request)

\* The run is in the state Running: on_run_start has fired and the call has
\* neither returned nor raised.
Running == pc \in {"clear_cancel", "loop", "after_loop"} \/ InFlight

\* Completed, Cancelled or Failed.
Terminal == pc \in {"returned", "raised"}

\* C23: with a backend that answers every request and carries tool calls in
\* finitely many responses in a row, a run that is Running comes to a terminal
\* state; and the head of an iteration is left for the next request whatever
\* the number of requests made, or through the cancellation break: there is
\* no cap on the iterations.
C23_RunsTerminate ==
    /\ Running ~> Terminal
    /\ [][ (pc = "loop" /\ pc' # "loop")
              => \/ pc' = "create" /\ ~cancel_run_requested
                 \/ pc' = "after_loop" /\ cancel_run_requested /\ cancelled' ]_vars

\* C23, witness: a run has completed after as many requests as the backend
\* answers with tool calls in a row, and one more.
C23_Witness ==
    /\ pc = "returned"
    /\ ~cancelled
    /\ n_requests = MaxRequests
    /\ ResponseCalls = <<>>

\* What a turn says: its role, content (None for a turn without the key),
\* calls and call id, whether it is the message object of the backend or a
\* dictionary.
Shape(turn) ==
    << turn.role, IF turn.content = Missing THEN None ELSE turn.content,
       turn.tool_calls, turn.tool_call_id >>

\* What _handle_non_streaming_response (lines 290-321) appends for a message
\* with this content and these calls: the message, and the tool turns of the
\* calls when it has no content.
AtomicShapes(content, calls) ==
    << << "assistant", content, calls, Missing >> >>
    \o (IF content = None THEN [i \in 1..Len(calls) |-> Shape(DispatchedTurn(calls[i]))]
        ELSE <<>>)

\* The on_function_call_processed events it fires (line 312).
AtomicEvents(content, calls) ==
    IF content = None THEN [i \in 1..Len(calls) |-> DispatchedEvent(calls[i])]
    ELSE <<>>

\* The turns appended since the request was made.
AppendedShapes ==
    [i \in 1..(Len(messages) - Len(messages_at_request)) |->
        Shape(messages[Len(messages_at_request) + i])]

IsFunctionCallProcessed(event) == event.cb = "on_function_call_processed"

\* The streamed response of the first request of the run has been handled.
StreamHandled ==
    /\ stream
    /\ response.kind = "stream"
    /\ n_requests = 1
    /\ pc \in {"loop", "after_loop", "returned"}

\* C31: a streamed response leaves in the history the turns the atomic
\* handler leaves for a message with the same text and the same calls, fires
\* the same on_function_call_processed events, and the run that completes on
\* it returns what an atomic run returns: the text without a thread name,
\* None with one.
C31_StreamingMatchesAtomic ==
    /\ (StreamHandled /\ pc # "returned")
          => /\ AppendedShapes = AtomicShapes(FinalAnswer, ResponseCalls)
             /\ SelectSeq(events, IsFunctionCallProcessed)
                  = AtomicEvents(FinalAnswer, ResponseCalls)
    /\ (StreamHandled /\ Completed)
          => result.value = (IF thread_name = None THEN FinalAnswer ELSE None)

\* C32: a cancellation that no iteration boundary of its run observed does not
\* cancel the next run: a flag found set at the head of the first iteration of
\* a run was set there, after lines 226-228 of that run, and with the flag
\* unset the run issues its request.
C32_StaleCancelDoesNotCancelNextRun ==
    /\ (pc = "loop" /\ n_requests = 0 /\ cancel_run_requested)
          => cancel_pc = "boundary"
    /\ (pc = "loop" /\ ~cancel_run_requested) => ENABLED CreateCompletion
    /\ (cancel_at_start /\ pc = "create") => ~cancelled

\* C32, witness: the second call on the client was made with the flag set and
\* has issued its first request.
C32_Witness ==
    /\ runs = 2
    /\ cancel_at_start
    /\ pc = "create"
    /\ n_requests = 1
    /\ ~cancelled

\* C33: a run that left its loop through the cancellation break has fired no
\* on_run_update with the status "completed".
C33_CancelledIsNotReportedCompleted ==
    cancelled =>
        \A i \in 1..Len(events) :
            ~(events[i].cb = "on_run_update" /\ events[i].status = "completed")

\* C34: _update_token_count runs between the appending of the initial turns
\* and on_run_start, with no request made, and nowhere else: once a request
\* has been made, the history it was made with and the turns appended since
\* stay in the history for the rest of the run.
C34_BudgetEnforcedOnceBeforeRun ==
    /\ pc = "update_token_count"
          => (n_requests = 0 /\ events = <<>> /\ messages_at_request = <<>>)
    /\ pc = "on_run_start" => (n_requests = 0 /\ events = <<>>)
    /\ (n_requests >= 1 /\ (InLoop \/ pc = "after_loop"))
          => IsPrefix(messages_at_request, messages)

\* C34, witness: _update_token_count has evicted a turn (the count is
\* negative) and the run stands at the head of its second iteration with the
\* turns of the first in the history.
C34_Witness ==
    /\ pc = "loop"
    /\ n_requests = 1
    /\ token_count < 0
    /\ Len(messages) > Len(messages_at_request)

\* C35: a call made with neither a thread name nor a user request raises
\* ValueError, not wrapped in EngineError, and leaves the history, the token
\* count, the flag and the thread as they were, with no callback fired and no
\* request made.
C35_NoArgumentsRaisesValueError ==
    [][ (runs' = runs + 1 /\ thread_name' = None /\ user_request' = None)
          => /\ pc' = "raised"
             /\ result' = RaisedValueError
             /\ messages' = messages
             /\ token_count' = token_count
             /\ cancel_run_requested' = cancel_run_requested
             /\ thread' = thread
             /\ events' = <<>>
             /\ n_requests' = 0 ]_vars

\* C35, witness: the second call on a client with a history was made without
\* arguments and has raised ValueError.
C35_Witness ==
    /\ runs = 2
    /\ result = RaisedValueError
    /\ pc = "raised"
    /\ thread_name = None
    /\ user_request = None
    /\ messages # <<>>
    /\ token_count > 0

IsUserOrAssistant(message) == message.role \in {"user", "assistant"}

\* The user and assistant messages of the thread, as retrieved.
TextMessages == SelectSeq(thread, IsUserOrAssistant)

\* new is old with, after an optional system turn, one turn per user or
\* assistant message of the thread, in reverse of the retrieved order.
ThreadAppended(old, new) ==
    LET k == Len(TextMessages)
        n == Len(new) - Len(old) - k
    IN  /\ n \in {0, 1}
        /\ IsPrefix(old, new)
        /\ n = 1 => new[Len(old) + 1].role = "system"
        /\ \A i \in 1..k :
              /\ new[Len(old) + n + i].role = TextMessages[k + 1 - i].role
              /\ new[Len(old) + n + i].content = TextMessages[k + 1 - i].content
              /\ new[Len(old) + n + i].tool_calls = <<>>

\* The thread has a user message and the newest of them has this text.
IsLastUserText(text) ==
    \E i \in 1..Len(thread) :
        /\ thread[i].role = "user"
        /\ thread[i].content = text
        /\ \A j \in 1..(i - 1) : thread[j].role # "user"

\* C36: a call with a thread name whose retrieval succeeds leaves the token
\* count as it was and appends the turns of the thread alone, one per user or
\* assistant message in reverse of the retrieved order, whatever user_request
\* it was given; and on_run_start of such a call reports the text of the
\* newest user message of the thread.
C36_ThreadRunResumesOnThreadHistory ==
    /\ [][ (runs' = runs + 1 /\ thread_name' # None /\ pc' = "update_token_count")
              => /\ token_count' = token_count
                 /\ ThreadAppended(messages, messages') ]_vars
    /\ []((thread_name # None /\ events # <<>>)
              => /\ events[1].cb = "on_run_start"
                 /\ IsLastUserText(events[1].text))

\* C36, witness: a call with a thread name has fired on_run_start with the
\* thread's last user text; the history holds the three turns of the thread
\* and no other, oldest first, and the count is 0.
C36_Witness ==
    /\ runs = 1
    /\ thread_name # None
    /\ pc = "clear_cancel"
    /\ events = << OnRunStartEvent("hi") >>
    /\ token_count = 0
    /\ Len(messages) = 3
    /\ messages[1].content = "book"
    /\ messages[3].content = "hi"
    /\ \A i \in 1..3 : messages[i].content # "essay"

\* The call was made with a thread name or a user request.
HasArguments == ~(thread_name = None /\ user_request = None)

\* C37: on a client whose model is not a key of the limit table, a call never
\* comes to on_run_start or to a request: it stands before the reading of the
\* limit or has raised, and a call that was given an argument has raised
\* EngineError, whatever the token count.
C37_UnknownModelFailsEveryRun ==
    ~ModelKnown(model)
        => /\ pc \in {"idle", "update_token_count", "raised"}
           /\ events = <<>>
           /\ n_requests = 0
           /\ (pc = "raised" /\ HasArguments)
                 => result.error \in { RaisedEngineError(cause).error :
                                         cause \in {"KeyError", "retrieve_conversation"} }

\* C37, witness: on a client of the model "gpt-4-turbo" a call with a user
\* request of 2100 tokens has raised at the reading of the limit.
C37_Witness ==
    /\ model = "gpt-4-turbo"
    /\ pc = "raised"
    /\ user_request = "essay"
    /\ token_count = TokenLen("essay")
    /\ result = RaisedEngineError("KeyError")


\* The objects of a client type that __init_private has completed.
Initialised(t) ==
    { i \in DOMAIN objects : objects[i].initialised /\ objects[i].ai_client_type = t }

\* C38: get_instance creates at most one instance per ai_client_type under
\* any interleaving of concurrent callers: at most one object of a type is
\* ever fully initialised, the object stored for a type is that fully
\* initialised object, every caller that returns for the type gets the stored
\* object, and the object keeps the config_folder of the caller that created
\* it, whatever config_folder later callers pass.
C38_OneInstancePerClientType ==
    /\ \A t \in ClientTypes : Cardinality(Initialised(t)) <= 1
    /\ \A t \in DOMAIN _instances : _instances[t] \in Initialised(t)
    /\ \A c \in 1..MaxCallers :
           callers[c].pc = "done" =>
               /\ callers[c].result = _instances[callers[c].ai_client_type]
               /\ callers[c].result \in Initialised(callers[c].ai_client_type)
    /\ \A c \in 1..MaxCallers :
           callers[c].pc \in {"store", "release", "return", "done"}
           /\ callers[c].instance # 0 =>
               objects[callers[c].instance].config_folder = callers[c].config_folder

\* C38 witness: one caller created the instance and returned it, a second
\* caller with another config_folder returned the same instance, and a third
\* caller, which found no instance at its first test, holds the lock now that
\* the instance is stored.
C38_Witness ==
    \E c1, c2, c3 \in 1..MaxCallers :
        /\ callers[c1].pc = "done" /\ callers[c2].pc = "done"
        /\ callers[c1].instance = callers[c1].result
        /\ callers[c2].instance = 0
        /\ callers[c2].ai_client_type = callers[c1].ai_client_type
        /\ callers[c2].config_folder # callers[c1].config_folder
        /\ callers[c2].result = callers[c1].result
        /\ objects[callers[c2].result].config_folder = callers[c1].config_folder
        /\ callers[c3].pc = "recheck"
        /\ callers[c3].ai_client_type = callers[c1].ai_client_type
        /\ callers[c3].ai_client_type \in DOMAIN _instances


\* The names the thread configuration has for a thread id.
NamesOf(thread_id) ==
    { n \in DOMAIN thread_config.threads : thread_config.threads[n] = thread_id }

\* C40: when delete_conversation_thread of a known thread has raised (the
\* remote deletion failed, the exception is EngineError), the thread
\* configuration still maps the name to the thread; and when no call is
\* under way, a thread without name in the thread configuration is not held
\* by the service any more.
C40_ThreadRemovedLocallyOnlyWhenDeletedRemotely ==
    /\ (method_call.method = "delete_conversation_thread"
        /\ method_call.pc = "raised"
        /\ method_call.thread_id # None)
           => /\ method_call.error = "EngineError"
              /\ method_call.thread_name \in NamesOf(method_call.thread_id)
    /\ method_call.pc \in {"idle", "returned", "raised"}
           => \A t \in ThreadIds : NamesOf(t) = {} => t \notin remote.threads


\* _update_message_attachments has returned.
UpdateReturned ==
    /\ method_call.method = "_update_message_attachments"
    /\ method_call.pc = "returned"

\* The attachments stored for the thread of the call.
Stored == thread_config.attachments[method_call.thread_id]

\* The files the service has deleted since the call began.
DeletedInCall ==
    SubSeq(remote.deleted, Len(method_call.deleted) + 1, Len(remote.deleted))

\* After a successful call the stored attachments are one per element of
\* new_attachments, the attachments dropped were removed and deleted once,
\* and the returned list has one entry per element, in order.
UpdateReturnsNewAttachments ==
    UpdateReturned =>
        LET new == method_call.new_attachments
            existing == method_call.existing
        IN /\ Len(Stored) = Len(new)
           /\ \A i \in DOMAIN new :
                  /\ Stored[i].tools = new[i].tools
                  /\ new[i].file_id # None => Stored[i].file_id = new[i].file_id
                  /\ new[i].file_id = None =>
                         /\ Stored[i].file_id \in remote.files
                         /\ Stored[i].file_id \notin FileIdsOf(existing)
           /\ \A i \in DOMAIN existing :
                  existing[i].file_id \notin FileIdsOf(new) =>
                      /\ \A j \in DOMAIN Stored : Stored[j].file_id # existing[i].file_id
                      /\ Cardinality({ j \in DOMAIN DeletedInCall :
                                         DeletedInCall[j] = existing[i].file_id }) = 1
                      /\ existing[i].file_id \notin remote.files
           /\ method_call.updated_attachments =
                  [i \in DOMAIN new |->
                       [file_id |-> Stored[i].file_id, tools |-> new[i].tools]]

\* C39: a call of _update_message_attachments on well-formed stored
\* attachments fails only when the service fails, also when an element of
\* new_attachments has a file_id that is not stored for the thread; and after
\* the call has succeeded the stored attachments are one per element of
\* new_attachments, every stored attachment whose file_id is not among the
\* new ones was removed and deleted remotely exactly once, and the returned
\* list has one {file_id, tools} entry per element, in order.
C39_UpdateStoresAndReturnsNewAttachments ==
    /\ UpdateReturnsNewAttachments
    /\ (method_call.method = "_update_message_attachments"
        /\ method_call.pc = "raised"
        /\ \A i \in DOMAIN method_call.existing : method_call.existing[i].file_id # Missing)
           => method_call.error = "remote"

====
